---- MODULE Spec2Model ----
(***************************************************************************)
(* The rate-limited retrieval client of stock-checker                      *)
(* (backend/internal/bestbuy/client.go, APIClient.doRequest).              *)
(*                                                                         *)
(* Time is discrete; one tick is one second.  The client only ever reads   *)
(* its watermark through time.Since(c.lastRequest), so the watermark is    *)
(* kept as its age (ticks since it was stamped), saturated at AgeCap,      *)
(* which is no smaller than any minInterval of the model.  A pending       *)
(* time.After(d) is the number of ticks left until its channel is ready.   *)
(***************************************************************************)
EXTENDS Integers, Sequences, FiniteSets, TLC

\* ---------------------------------------------------------------- bounds
\* doRequest calls that may be in progress at once on the one client
NumCalls == 2
\* minInterval is drawn from 1..MaxMinInterval
MaxMinInterval == 2
\* maxRetries is drawn from 0..MaxMaxRetries
MaxMaxRetries == 2
\* retryBaseWait is drawn from 1..MaxBaseWait
MaxBaseWait == 1

RECURSIVE Pow2(_)
\* 1 << n
Pow2(n) == IF n = 0 THEN 1 ELSE 2 * Pow2(n - 1)

Calls == 1..NumCalls
NoCall == 0
\* ages are saturated here: an age of AgeCap reads "minInterval or more ago"
AgeCap == MaxMinInterval

Max(a, b) == IF a >= b THEN a ELSE b
Min(a, b) == IF a <= b THEN a ELSE b


\* ------------------------------------------------------- responses (inputs)
\* Bodies are word sequences; the vendor phrase is three consecutive words.
RateLimitPhrase == <<"per", "second", "limit">>
PlainBody == <<"data">>
PhraseBody == <<"over", "per", "second", "limit">>
PartialBody == <<"per", "second">>

\* strings.Contains(body, phrase)
Contains(body, phrase) ==
    \E i \in 0..(Len(body) - Len(phrase)) :
        \A j \in 1..Len(phrase) : body[i + j] = phrase[j]

\* Retry-After header values, as character sequences; <<>> is "header absent"
NoHeader == <<>>
RetryAfterHeaders == {NoHeader, <<"2">>, <<"-", "1">>, <<"x">>}

Digits == {"0", "1", "2", "3", "4", "5", "6", "7", "8", "9"}
DigitVal(ch) ==
    CASE ch = "0" -> 0 [] ch = "1" -> 1 [] ch = "2" -> 2 [] ch = "3" -> 3
      [] ch = "4" -> 4 [] ch = "5" -> 5 [] ch = "6" -> 6 [] ch = "7" -> 7
      [] ch = "8" -> 8 [] ch = "9" -> 9

RECURSIVE DecimalValue(_)
DecimalValue(ds) ==
    IF ds = <<>> THEN 0
    ELSE 10 * DecimalValue(SubSeq(ds, 1, Len(ds) - 1)) + DigitVal(ds[Len(ds)])

\* time.ParseDuration on an optionally signed run of decimal digits followed
\* by the unit "s": [ok, d] with d in seconds.  Anything else is an error.
ParseDuration(str) ==
    LET signed == str # <<>> /\ str[1] \in {"-", "+"}
        rest == IF signed THEN Tail(str) ELSE str
        num == IF rest = <<>> THEN <<>> ELSE SubSeq(rest, 1, Len(rest) - 1)
        wellFormed == /\ Len(rest) >= 2
                      /\ rest[Len(rest)] = "s"
                      /\ \A i \in 1..Len(num) : num[i] \in Digits
    IN  IF wellFormed
        THEN [ok |-> TRUE,
              d |-> IF signed /\ str[1] = "-" THEN 0 - DecimalValue(num)
                    ELSE DecimalValue(num)]
        ELSE [ok |-> FALSE, d |-> 0]

Response(st, b, ra) == [status |-> st, body |-> b, retryAfter |-> ra]
NoResponse == Response(0, <<>>, NoHeader)

\* The upstream answers the model draws from.
Responses ==
    { Response(200, PlainBody, NoHeader),
      Response(200, PhraseBody, <<"2">>),
      Response(204, PlainBody, NoHeader),
      Response(404, PhraseBody, <<"2">>),
      Response(403, PlainBody, NoHeader),
      Response(403, PartialBody, <<"2">>),
      Response(403, PhraseBody, NoHeader),
      Response(403, PhraseBody, <<"2">>),
      Response(500, PlainBody, <<"2">>),
      Response(503, PhraseBody, NoHeader) }
    \cup { Response(429, PlainBody, h) : h \in RetryAfterHeaders }

\* ---------------------------------------------------------------- state
VARIABLES
    minInterval,    \* APIClient.minInterval
    maxRetries,     \* APIClient.maxRetries
    retryBaseWait,  \* APIClient.retryBaseWait
    mu,             \* APIClient.mu: the call holding it, or NoCall
    lastRequest,    \* age of APIClient.lastRequest, saturated at AgeCap
    pc,             \* per call: where doRequest stands
    attempt,        \* per call: the loop variable
    timer,          \* per call: ticks left of the pending time.After
    waited,         \* per call: ticks that passed with its timer pending (history)
    ctxErr,         \* per call: ctx.Err(): "nil", "Canceled", "DeadlineExceeded"
    lastErr,        \* per call: the local lastErr
    result,         \* per call: what doRequest returned
    lastResp,       \* per call: the response of the latest attempt (history)
    sent,           \* per call: requests put on the wire by this call (history)
    streak,         \* per call: the one kind of outcome its attempts had (history)
    sinceSent,      \* age of the latest request put on the wire (history)
    lastSender      \* the call that sent it (history)

\* the service around the client: the handler, the operation of the client
\* it is waiting for, and the fixture client
VARIABLES
    bbClient,       \* StockCheckerHandler.bbClient: "api" or "mock"
    hpc,            \* where the handler stands
    hctx,           \* ctx.Err() of the request being handled
    op,             \* the client operation in progress
    opRet,          \* what the latest client operation returned (history)
    reqSkus,        \* req.Msg.Skus
    reqStores,      \* req.Msg.StoreIds
    idx,            \* CheckStock: position of the loop in skus
    product,        \* CheckStock: the local product
    results,        \* CheckStock: the local results
    response,       \* what the handler returned
    lookups,        \* CheckStock: per position, the lookups made (history)
    rolled,         \* the first Float64() of rand.NewSource(seed), per seed
    globalRand,     \* state of the math/rand global source
    computed,       \* fixture classifications computed so far (history)
    drawn           \* the global source was drawn from after a
                    \* CheckAvailability of this request returned (history)

svars == <<bbClient, hpc, hctx, op, opRet, reqSkus, reqStores, idx, product,
           results, response, lookups, rolled, globalRand, computed, drawn>>

\* what the fixture client computes from one roll
VARIABLES
    rollValue,      \* mock CheckAvailability: rng.Float64(), in hundredths
    rollProduct,    \* mock CheckAvailability: the product
    classified      \* mock CheckAvailability: inStock, lowStock and whether
                    \* the store is appended to the results

rvars == <<rollValue, rollProduct, classified>>

\* the CheckStock page of the frontend
VARIABLES
    pageVersion,    \* which of the two revisions of the page is running
    loading,        \* CheckStock: loading
    pageResults,    \* CheckStock: results
    sortField,      \* CheckStock: sortField
    sortDirection,  \* CheckStock: sortDirection
    sortedResults   \* CheckStock: sortedResults (useMemo)

gvars == <<pageVersion, loading, pageResults, sortField, sortDirection,
           sortedResults>>

\* the My Stores list of the frontend (My Products is the same code on skus)
VARIABLES
    isAuthenticated,  \* useAuth().isAuthenticated
    myStores,         \* MyStoresProvider: stores, by storeId
    serverCalls       \* the calls of the server that were not answered yet, in
                      \* the order they were made, with what their catch uses

lvars == <<isAuthenticated, myStores, serverCalls>>

\* sign-in: the sessions table and the middleware in front of the service
VARIABLES
    authHandler,    \* main: authHandler, "nil" or "auth"
    sessions,       \* the rows of the sessions table
    dbNow,          \* NOW() of the database, time.Now() of the server
    issued,         \* the sessions HandleCallback created (history)
    loggedOut,      \* the tokens HandleLogout deleted (history)
    served          \* what became of the latest request to the service
                    \* (history)

avars == <<authHandler, sessions, dbNow, issued, loggedOut, served>>

\* the state outside the client and the handler
pvars == <<rvars, gvars, lvars, avars>>

hvars == <<svars, pvars>>

vars == <<minInterval, maxRetries, retryBaseWait, mu, lastRequest, pc, attempt,
          timer, waited, ctxErr, lastErr, result, lastResp, sent, streak, sinceSent,
          lastSender, hvars>>

config == <<minInterval, maxRetries, retryBaseWait>>
clock == <<timer, waited>>

\* ---------------------------------------------------------------- errors
Err(k, st, b, ra) == [kind |-> k, status |-> st, body |-> b, retryAfter |-> ra]
\* var lastErr error
NilErr == Err("nil", 0, <<>>, 0)
\* fmt.Errorf("failed to execute request: %w", err)
ExecuteErr == Err("execute", 0, <<>>, 0)
\* fmt.Errorf("failed to read response: %w", err)
ReadErr == Err("read", 0, <<>>, 0)
\* &RateLimitError{RetryAfter: retryAfter}
RateLimitError(ra) == Err("rateLimit", 0, <<>>, ra)
\* fmt.Errorf("API returned status %d: %s", resp.StatusCode, string(body))
StatusErr(st, b) == Err("status", st, b, 0)

Res(k, e, b) == [kind |-> k, err |-> e, body |-> b]
NoResult == Res("none", NilErr, <<>>)
\* return body, nil
ReturnBody(b) == Res("ok", NilErr, b)
\* return nil, ctx.Err()
ReturnCtxErr(c) == Res(ctxErr[c], NilErr, <<>>)
\* return nil, fmt.Errorf("failed to create request: %w", err)
ReturnCreateErr == Res("create", NilErr, <<>>)
\* return nil, lastErr
ReturnLastErr(e) == Res("error", e, <<>>)
\* return nil, fmt.Errorf("max retries exceeded: %w", lastErr)
ReturnExhausted(e) == Res("maxRetries", e, <<>>)

\* ------------------------------------------------------ doRequest, pieces
\* (mutation of IsRateLimited: every 403 counts as rate-limited)
IsRateLimitedAny403(r) == r.status = 429 \/ r.status = 403

\* resp.StatusCode == 429 || (resp.StatusCode == 403 && Contains(body, phrase))
IsRateLimited(r) ==
    \/ r.status = 429
    \/ r.status = 403 /\ Contains(r.body, RateLimitPhrase)

\* (mutation of BackoffWait: the wait grows linearly)
BackoffWaitLinear(n) == retryBaseWait * (n + 1)

\* c.retryBaseWait * time.Duration(1<<attempt)
BackoffWait(n) == retryBaseWait * Pow2(n)

\* (mutation of RetryAfterWait: the header is not consulted)
RetryAfterIgnored(r, n) == BackoffWait(n)

\* the local retryAfter of a rate-limited response r on attempt n
RetryAfterWait(r, n) ==
    LET parsed == ParseDuration(r.retryAfter \o <<"s">>)
    IN  IF r.retryAfter # NoHeader /\ parsed.ok THEN parsed.d ELSE BackoffWait(n)

\* (mutation of SleepTime: the wait comes out one tick short)
SleepTimeShort(elapsed) == minInterval - elapsed - 1

\* sleepTime := c.minInterval - elapsed
SleepTime(elapsed) == minInterval - elapsed

\* (mutation of IsClientError: a 403 is taken for a retryable failure)
IsClientErrorBut403(st) == st >= 400 /\ st < 500 /\ st # 403

\* resp.StatusCode >= 400 && resp.StatusCode < 500
IsClientError(st) == st >= 400 /\ st < 500

\* (mutation of LoopCondition: one attempt fewer)
LoopConditionStrict(n) == n < maxRetries

\* the loop condition attempt <= c.maxRetries
LoopCondition(n) == n <= maxRetries

\* (mutation of NewWatermark: only the first attempt stamps the watermark)
NewWatermarkFirstOnly(c) == IF attempt[c] = 0 THEN 0 ELSE lastRequest

\* c.lastRequest = time.Now(): the watermark's age is zero
NewWatermark(c) == 0

\* what an attempt's outcome is filed under in `streak`
OutcomeKind(r) ==
    IF IsRateLimited(r) THEN "rateLimited"
    ELSE IF r.status = 200 THEN "ok"
    ELSE IF r.status >= 400 /\ r.status < 500 THEN "4xx"
    ELSE IF r.status >= 500 /\ r.status < 600 THEN "5xx"
    ELSE "other"

\* `streak` after one more outcome of kind k
Streak(c, k) ==
    [streak EXCEPT ![c] = IF @ \in {"none", k} THEN k ELSE "mixed"]

\* <-time.After(d) begins
StartTimer(c, d) ==
    /\ timer' = [timer EXCEPT ![c] = Max(d, 0)]
    /\ waited' = [waited EXCEPT ![c] = 0]

\* no time.After is pending
NoTimer(c) ==
    /\ timer' = [timer EXCEPT ![c] = 0]
    /\ waited' = [waited EXCEPT ![c] = 0]

\* (mutation of Continue: lastErr keeps the first failure of the call)
ContinueKeepsFirst(c, e) ==
    LET kept == IF lastErr[c] = NilErr THEN e ELSE lastErr[c]
    IN  /\ lastErr' = [lastErr EXCEPT ![c] = kept]
        /\ attempt' = [attempt EXCEPT ![c] = @ + 1]
        /\ NoTimer(c)
        /\ IF LoopCondition(attempt[c] + 1)
           THEN /\ pc' = [pc EXCEPT ![c] = "lock"]
                /\ lastResp' = [lastResp EXCEPT ![c] = NoResponse]
                /\ UNCHANGED result
           ELSE /\ pc' = [pc EXCEPT ![c] = "done"]
                /\ result' = [result EXCEPT ![c] = ReturnExhausted(kept)]
                /\ UNCHANGED lastResp

\* `continue` with lastErr = e: attempt++, then the loop test; when it fails
\* the function falls out of the loop to its last line.
Continue(c, e) ==
    /\ lastErr' = [lastErr EXCEPT ![c] = e]
    /\ attempt' = [attempt EXCEPT ![c] = @ + 1]
    /\ NoTimer(c)
    /\ IF LoopCondition(attempt[c] + 1)
       THEN /\ pc' = [pc EXCEPT ![c] = "lock"]
            /\ lastResp' = [lastResp EXCEPT ![c] = NoResponse]
            /\ UNCHANGED result
       ELSE /\ pc' = [pc EXCEPT ![c] = "done"]
            /\ result' = [result EXCEPT ![c] = ReturnExhausted(e)]
            /\ UNCHANGED lastResp

\* (mutation of ReturnFromWait: the select's ctx.Done case returns lastErr)
ReturnFromWaitLastErr(c) ==
    /\ pc' = [pc EXCEPT ![c] = "done"]
    /\ result' = [result EXCEPT ![c] = ReturnLastErr(lastErr[c])]
    /\ timer' = [timer EXCEPT ![c] = 0]
    /\ UNCHANGED waited

\* `return nil, ctx.Err()` out of a select; `waited` keeps the time spent
ReturnFromWait(c) ==
    /\ pc' = [pc EXCEPT ![c] = "done"]
    /\ result' = [result EXCEPT ![c] = ReturnCtxErr(c)]
    /\ timer' = [timer EXCEPT ![c] = 0]
    /\ UNCHANGED waited

\* ------------------------------------------------- the service: its data
\* Identifiers are strings; Runes gives the characters of the ones in use.
Sku6579543 == "6579543"
Sku6543210 == "6543210"
Sku6403111 == "6403111"
Store1118 == "1118"
Store187 == "187"
PostalCode94103 == "94103"
\* len(skus) and len(storeIDs) of a request go up to these
MaxSkus == 2
MaxStores == 2

Runes(id) ==
    CASE id = Sku6579543 -> <<"6", "5", "7", "9", "5", "4", "3">>
      [] id = Sku6543210 -> <<"6", "5", "4", "3", "2", "1", "0">>
      [] id = Sku6403111 -> <<"6", "4", "0", "3", "1", "1", "1">>
      [] id = Store1118 -> <<"1", "1", "1", "8">>
      [] id = Store187 -> <<"1", "8", "7">>
      [] id = PostalCode94103 -> <<"9", "4", "1", "0", "3">>
      [] id = "pikachu" -> <<"p", "i", "k", "a", "c", "h", "u">>
      [] OTHER -> <<>>

DigitChar(d) ==
    CASE d = 0 -> "0" [] d = 1 -> "1" [] d = 2 -> "2" [] d = 3 -> "3"
      [] d = 4 -> "4" [] d = 5 -> "5" [] d = 6 -> "6" [] d = 7 -> "7"
      [] d = 8 -> "8" [] d = 9 -> "9"

RECURSIVE Itoa(_)
\* fmt's %d of a non-negative number, as characters
Itoa(n) == IF n < 10 THEN <<DigitChar(n)>> ELSE Itoa(n \div 10) \o <<DigitChar(n % 10)>>

\* time.Duration.String() of d whole seconds
DurationText(d) ==
    LET a == IF d < 0 THEN 0 - d ELSE d
        sign == IF d < 0 THEN <<"-">> ELSE <<>>
    IN  IF a < 60 THEN sign \o Itoa(a) \o <<"s">>
        ELSE sign \o Itoa(a \div 60) \o <<"m">> \o Itoa(a % 60) \o <<"s">>

\* the client operation o: its name and the identifier it is about
Op(n, id) == [name |-> n, id |-> id]
NoOp == Op("none", "")

RECURSIVE Join(_)
\* the storeIDsParam of CheckAvailability: the identifiers, comma-separated
Join(ids) ==
    IF ids = <<>> THEN <<>>
    ELSE IF Len(ids) = 1 THEN Runes(ids[1])
    ELSE Runes(ids[1]) \o <<",">> \o Join(Tail(ids))

\* the endpoint an operation builds, as far as its arguments show in it
Endpoint(o, stores) ==
    CASE o.name = "GetProductBySKU" -> <<"/products/">> \o Runes(o.id) \o <<".json">>
      [] o.name = "CheckAvailability" ->
            <<"/stores(storeId in(">> \o Join(stores) \o <<"))+products(sku=">>
                \o Runes(o.id) \o <<")">>
      [] o.name = "SearchStores" -> <<"/stores(area(">> \o Runes(o.id) \o <<"))">>
      [] o.name = "SearchProducts" -> <<"/products(search=">> \o Runes(o.id) \o <<")">>
      [] OTHER -> <<"/products(subclass=POKEMON CARDS)">>

\* Error() of the errors doRequest keeps in lastErr
LastErrText(e, endpoint) ==
    CASE e.kind = "execute" -> <<"failed to execute request: Get ">> \o endpoint
      [] e.kind = "read" -> <<"failed to read response: ">>
      [] e.kind = "rateLimit" ->
            <<"rate limit exceeded, retry after ">> \o DurationText(e.retryAfter)
      [] e.kind = "status" ->
            <<"API returned status ">> \o Itoa(e.status) \o <<": ">> \o e.body
      [] OTHER -> <<>>

\* err.Error() of what doRequest returned
ErrorText(res, endpoint) ==
    CASE res.kind = "Canceled" -> <<"context canceled">>
      [] res.kind = "DeadlineExceeded" -> <<"context deadline exceeded">>
      [] res.kind = "create" -> <<"failed to create request: parse ">> \o endpoint
      [] res.kind = "error" -> LastErrText(res.err, endpoint)
      [] res.kind = "maxRetries" ->
            <<"max retries exceeded: ">> \o LastErrText(res.err, endpoint)
      [] OTHER -> <<>>

\* response bodies of the catalog, as tokens: a product document, a stores
\* document (the stores that carry the product), and something that is not JSON
ProductBody(sku) == <<"{product", sku, "}">>
StoresBody(ids) == <<"{stores">> \o ids \o <<"}">>
Mentions403Body == <<"upstream", "4", "0", "3">>

\* json.Unmarshal succeeds on any JSON object; fields that are absent keep
\* their zero value
ValidJSON(body) == body # <<>> /\ body[1] \in {"{product", "{stores"}
ZeroProduct == [SKU |-> "0"]
\* json.Unmarshal(body, &product)
UnmarshalProduct(body) ==
    IF body[1] = "{product" THEN [SKU |-> body[2]] ELSE ZeroProduct
\* json.Unmarshal(body, &result), result.Stores (the products searches read
\* their list the same way)
UnmarshalList(body) ==
    IF body[1] = "{stores" THEN SubSeq(body, 2, Len(body) - 1) ELSE <<>>

\* what an operation of the client returns: err ("nil" for none), and the
\* product or the list it yields
Ret(e, p, l) == [err |-> e, product |-> p, list |-> l]
\* StoreAvailability, with the fields the handler's classification rests on
StoreAvailability(id, inStock, lowStock) ==
    [StoreID |-> id, InStock |-> inStock, LowStock |-> lowStock]

\* APIClient.GetProductBySKU, from what doRequest returned
APIGetProductBySKU(res) ==
    IF res.kind # "ok" THEN Ret(res.kind, ZeroProduct, <<>>)
    ELSE IF ~ValidJSON(res.body) THEN Ret("decode", ZeroProduct, <<>>)
    ELSE Ret("nil", UnmarshalProduct(res.body), <<>>)

\* APIClient.SearchStores, SearchProducts (its search request),
\* SearchProductsInCategory and BrowsePokemonProducts, likewise
APIList(res) ==
    IF res.kind # "ok" THEN Ret(res.kind, ZeroProduct, <<>>)
    ELSE IF ~ValidJSON(res.body) THEN Ret("decode", ZeroProduct, <<>>)
    ELSE Ret("nil", ZeroProduct, UnmarshalList(res.body))

\* APIClient.CheckAvailability, likewise; endpoint is the one it built
APICheckAvailability(res, endpoint) ==
    IF res.kind # "ok"
    THEN IF Contains(ErrorText(res, endpoint), <<"4", "0", "3">>)
         THEN Ret("nil", ZeroProduct, <<>>)
         ELSE Ret(res.kind, ZeroProduct, <<>>)
    ELSE IF ~ValidJSON(res.body) THEN Ret("decode", ZeroProduct, <<>>)
    ELSE LET stores == UnmarshalList(res.body)
         IN  Ret("nil", ZeroProduct,
                 [i \in 1..Len(stores) |-> StoreAvailability(stores[i], TRUE, FALSE)])

\* skuPattern.MatchString(query): six to eight digits
SkuPattern(query) ==
    /\ Len(Runes(query)) \in 6..8
    /\ \A i \in 1..Len(Runes(query)) : Runes(query)[i] \in Digits

\* the answers of the catalog to the request of operation o
UpstreamAnswers(o, stores) ==
    { Response(404, PlainBody, NoHeader),
      Response(403, PlainBody, NoHeader),
      Response(500, PlainBody, NoHeader),
      Response(500, Mentions403Body, NoHeader),
      Response(429, PlainBody, NoHeader),
      Response(200, PlainBody, NoHeader) }
    \cup (IF o.name = "GetProductBySKU"
          THEN {Response(200, ProductBody(o.id), NoHeader)}
          ELSE IF o.name = "CheckAvailability"
          THEN {Response(200, StoresBody(<<>>), NoHeader),
                Response(200, StoresBody(stores), NoHeader)}
          ELSE {Response(200, StoresBody(<<Store1118>>), NoHeader)})

\* the calls of the handler go through this doRequest call
TheCall == 1

\* what a handler returns: the response message (CheckStockResponse has the
\* one field Results) and the error
Reply(rs, e) == [msg |-> [Results |-> rs], err |-> e]
NoReply == [msg |-> [Results |-> <<>>], err |-> "none"]

\* StockStatus, from a record of the client and the product looked up
StockStatus(avail, p) ==
    [StoreId |-> avail.StoreID, Sku |-> p.SKU,
     InStock |-> avail.InStock, LowStock |-> avail.LowStock]

\* history of the latest return of an operation of the real client: which
\* one, whether its request failed, the error it returned, and how its
\* doRequest call ended (what it returned, and the status of the last answer
\* it read, 0 for none)
OpRet(n, failed, e, kind, st) ==
    [name |-> n, failed |-> failed, err |-> e, kind |-> kind, status |-> st]
NoOpRet == OpRet("none", FALSE, "nil", "none", 0)

\* history of the lookups for one position of skus
\* (meta, avail: calls of GetProductBySKU and of CheckAvailability; stores:
\* the stores CheckAvailability was asked about; records: what it returned)
NoLookup == [meta |-> 0, avail |-> 0, state |-> "pending",
             product |-> ZeroProduct, stores |-> <<>>, records |-> <<>>]

\* ------------------------------------------------- the fixture client
\* mockStores and mockProducts: two stores and two products of the catalog,
\* one product carried in stores and one not
mockStores == <<Store1118, Store187>>
mockProducts ==
    << [SKU |-> Sku6579543, InStoreAvailability |-> TRUE],
       [SKU |-> Sku6543210, InStoreAvailability |-> FALSE] >>

RECURSIVE SumRunes(_)
\* seed += int64(c) over the characters
SumRunes(chars) ==
    IF chars = <<>> THEN 0
    ELSE 48 + DigitVal(chars[1]) + SumRunes(Tail(chars))

\* the seed of the pair: the sum of the characters of storeID + sku
Seed(storeID, sku) == SumRunes(Runes(storeID) \o Runes(sku))

MockSeeds ==
    { Seed(mockStores[i], mockProducts[j].SKU) :
        i \in 1..Len(mockStores), j \in 1..Len(mockProducts) }

\* a Float64() in [0, 1), in hundredths: below every threshold, and the
\* thresholds 0.5 and 0.7 themselves
Rolls == {5, 50, 70}
NotRolled == 0 - 1

\* the values the global source hands out, by its state
GlobalStream == <<5, 50, 70>>
GlobalFloat(g) == GlobalStream[g + 1]

\* (mutation of SeededRoll: the roll is drawn from the global source)
GlobalRoll(seed, memo, g) == GlobalFloat(g)

\* r := rand.New(rand.NewSource(seed)); roll := r.Float64()
SeededRoll(seed, memo, g) == memo[seed]

\* (mutation of InStock: a product that stores do not carry is never there)
InStockCarriedOnly(p, roll) ==
    IF ~p.InStoreAvailability THEN FALSE ELSE roll < 70

\* inStock of a product p for a roll
InStock(p, roll) ==
    IF ~p.InStoreAvailability THEN roll < 10 ELSE roll < 70

\* (mutation of LowStock: the low-stock range reaches past the in-stock one)
LowStockWide(p, roll) ==
    IF ~p.InStoreAvailability THEN FALSE ELSE roll >= 50 /\ roll < 80

\* lowStock of a product p for a roll
LowStock(p, roll) ==
    IF ~p.InStoreAvailability THEN FALSE ELSE roll >= 50 /\ roll < 70

\* (mutation of Listed: every store is added)
ListedAlways(inStock) == TRUE

\* if inStock { availability = append(...) }
Listed(inStock) == inStock

\* the product with this SKU in mockProducts, as a set of at most one
FindProduct(sku) ==
    { mockProducts[j] : j \in { k \in 1..Len(mockProducts) : mockProducts[k].SKU = sku } }

\* what the loop over mockStores computes for product p: one record per store
Classify(p, memo, g) ==
    [i \in 1..Len(mockStores) |->
        LET roll == SeededRoll(Seed(mockStores[i], p.SKU), memo, g)
        IN  StoreAvailability(mockStores[i], InStock(p, roll), LowStock(p, roll))]

\* MockClient.CheckAvailability once the latency is over: the records added
MockAvailability(p, memo, g) ==
    SelectSeq(Classify(p, memo, g), LAMBDA a : Listed(a.InStock))

\* MockClient.GetProductBySKU; ctx is the ctx.Err() that simulateLatency sees
MockGetProductBySKU(ctx, sku) ==
    IF ctx # "nil" THEN Ret(ctx, ZeroProduct, <<>>)
    ELSE IF FindProduct(sku) = {} THEN Ret("notFound", ZeroProduct, <<>>)
    ELSE Ret("nil", [SKU |-> sku], <<>>)

\* ---------------------------------------------------------------- actions
\* NewAPIClient, and no call under way
ClientInit ==
    /\ minInterval \in 1..MaxMinInterval
    /\ maxRetries \in 0..MaxMaxRetries
    /\ retryBaseWait \in 1..MaxBaseWait
    /\ mu = NoCall
    /\ lastRequest = AgeCap
    /\ pc = [c \in Calls |-> "idle"]
    /\ attempt = [c \in Calls |-> 0]
    /\ timer = [c \in Calls |-> 0]
    /\ waited = [c \in Calls |-> 0]
    /\ ctxErr = [c \in Calls |-> "nil"]
    /\ lastErr = [c \in Calls |-> NilErr]
    /\ result = [c \in Calls |-> NoResult]
    /\ lastResp = [c \in Calls |-> NoResponse]
    /\ sent = [c \in Calls |-> 0]
    /\ streak = [c \in Calls |-> "none"]
    /\ sinceSent = AgeCap
    /\ lastSender = NoCall

\* the handler has nothing to do and the fixture has rolled nothing yet
NoClassification == [inStock |-> FALSE, lowStock |-> FALSE, listed |-> FALSE]

\* no roll has been classified
RollIdle ==
    /\ rollValue = NotRolled
    /\ rollProduct = ZeroProduct
    /\ classified = NoClassification

\* useState<SortField>(...) of the two revisions
InitialSortField(v) == IF v = 1 THEN "status" ELSE "myStore"

\* the page as mounted, in revision v
PageMounted(v) ==
    /\ pageVersion = v
    /\ loading = FALSE
    /\ pageResults = <<>>
    /\ sortField = InitialSortField(v)
    /\ sortDirection = "desc"
    /\ sortedResults = <<>>

PageIdle == PageMounted(2)

\* the provider of a visitor with nothing saved
ListIdle ==
    /\ isAuthenticated = FALSE
    /\ myStores = <<>>
    /\ serverCalls = <<>>

NoCookie == "none"
\* no request to the service yet
NotServed == [cookie |-> NoCookie, outcome |-> "none", n |-> 0]

\* a server started on an empty sessions table
AuthStarted(h) ==
    /\ authHandler = h
    /\ sessions = {}
    /\ dbNow = 0
    /\ issued = {}
    /\ loggedOut = {}
    /\ served = NotServed

AuthIdle == AuthStarted("nil")

PagesIdle ==
    /\ RollIdle
    /\ PageIdle
    /\ ListIdle
    /\ AuthIdle

ServiceIdle ==
    /\ hpc = "idle"
    /\ hctx = "nil"
    /\ op = NoOp
    /\ opRet = NoOpRet
    /\ reqSkus = <<>>
    /\ reqStores = <<>>
    /\ idx = 0
    /\ product = ZeroProduct
    /\ results = <<>>
    /\ response = NoReply
    /\ lookups = <<>>
    /\ rolled = [seed \in MockSeeds |-> NotRolled]
    /\ globalRand = 0
    /\ computed = {}
    /\ drawn = FALSE

\* the client on its own: its callers are left out
Init ==
    /\ ClientInit
    /\ bbClient = "api"
    /\ ServiceIdle
    /\ PagesIdle

\* a caller enters doRequest with a live context
Enter(c) ==
    /\ pc[c] = "idle"
    /\ pc' = [pc EXCEPT ![c] = "lock"]
    /\ UNCHANGED <<config, mu, lastRequest, attempt, clock, ctxErr, lastErr,
                   result, lastResp, sent, streak, sinceSent, lastSender>>

\* calls issued one after another: no call is running when this one starts
Start(c) ==
    /\ \A d \in Calls : pc[d] = "idle"
    /\ Enter(c)
    /\ UNCHANGED hvars

\* calls issued by concurrent callers: others may be running
StartConcurrent(c) ==
    /\ Enter(c)
    /\ UNCHANGED hvars

\* doRequest has returned; its frame and its context are gone
Leave(c) ==
    /\ pc[c] = "done"
    /\ pc' = [pc EXCEPT ![c] = "idle"]
    /\ attempt' = [attempt EXCEPT ![c] = 0]
    /\ NoTimer(c)
    /\ ctxErr' = [ctxErr EXCEPT ![c] = "nil"]
    /\ lastErr' = [lastErr EXCEPT ![c] = NilErr]
    /\ result' = [result EXCEPT ![c] = NoResult]
    /\ lastResp' = [lastResp EXCEPT ![c] = NoResponse]
    /\ sent' = [sent EXCEPT ![c] = 0]
    /\ streak' = [streak EXCEPT ![c] = "none"]
    /\ UNCHANGED <<config, mu, lastRequest, sinceSent, lastSender>>

\* ... and its caller is not of interest
Return(c) ==
    /\ Leave(c)
    /\ UNCHANGED hvars

\* c.mu.Lock() at the top of an attempt
Lock(c) ==
    /\ pc[c] = "lock"
    /\ mu = NoCall
    /\ mu' = c
    /\ pc' = [pc EXCEPT ![c] = "check"]
    /\ UNCHANGED <<config, lastRequest, attempt, clock, ctxErr, lastErr, result,
                   lastResp, sent, streak, sinceSent, lastSender>>
    /\ UNCHANGED hvars

\* (mutation of Throttle: the mutex is kept through the throttle wait)
ThrottleKeepsMutex(c) ==
    /\ pc[c] = "check"
    /\ IF lastRequest < minInterval
       THEN /\ StartTimer(c, SleepTime(lastRequest))
            /\ pc' = [pc EXCEPT ![c] = "sleep"]
            /\ UNCHANGED <<lastRequest, mu>>
       ELSE /\ lastRequest' = NewWatermark(c)
            /\ mu' = NoCall
            /\ pc' = [pc EXCEPT ![c] = "create"]
            /\ UNCHANGED clock
    /\ UNCHANGED <<config, attempt, ctxErr, lastErr, result, lastResp, sent,
                   streak, sinceSent, lastSender>>
    /\ UNCHANGED hvars

\* elapsed := time.Since(c.lastRequest); too early: unlock and go to sleep;
\* otherwise stamp the watermark and unlock
Throttle(c) ==
    /\ pc[c] = "check"
    /\ mu' = NoCall
    /\ IF lastRequest < minInterval
       THEN /\ StartTimer(c, SleepTime(lastRequest))
            /\ pc' = [pc EXCEPT ![c] = "sleep"]
            /\ UNCHANGED lastRequest
       ELSE /\ lastRequest' = NewWatermark(c)
            /\ pc' = [pc EXCEPT ![c] = "create"]
            /\ UNCHANGED clock
    /\ UNCHANGED <<config, attempt, ctxErr, lastErr, result, lastResp, sent,
                   streak, sinceSent, lastSender>>
    /\ UNCHANGED hvars

\* case <-time.After(sleepTime): then c.mu.Lock()
ThrottleWake(c) ==
    /\ pc[c] = "sleep"
    /\ timer[c] = 0
    /\ mu = NoCall
    /\ mu' = c
    /\ pc' = [pc EXCEPT ![c] = "stamp"]
    /\ UNCHANGED <<config, lastRequest, attempt, clock, ctxErr, lastErr, result,
                   lastResp, sent, streak, sinceSent, lastSender>>
    /\ UNCHANGED hvars

\* case <-ctx.Done() of the throttle wait
ThrottleCtxDone(c) ==
    /\ pc[c] = "sleep"
    /\ ctxErr[c] # "nil"
    /\ ReturnFromWait(c)
    /\ UNCHANGED <<config, mu, lastRequest, attempt, ctxErr, lastErr, lastResp,
                   sent, streak, sinceSent, lastSender>>
    /\ UNCHANGED hvars

\* c.lastRequest = time.Now(); c.mu.Unlock() after the throttle wait
Stamp(c) ==
    /\ pc[c] = "stamp"
    /\ lastRequest' = NewWatermark(c)
    /\ mu' = NoCall
    /\ pc' = [pc EXCEPT ![c] = "create"]
    /\ UNCHANGED <<config, attempt, clock, ctxErr, lastErr, result, lastResp,
                   sent, streak, sinceSent, lastSender>>
    /\ UNCHANGED hvars

\* http.NewRequestWithContext fails on a malformed endpoint (the endpoint is
\* the same on every attempt, so only the first attempt can find it so)
CreateFails(c) ==
    /\ pc[c] = "create"
    /\ attempt[c] = 0
    /\ pc' = [pc EXCEPT ![c] = "done"]
    /\ result' = [result EXCEPT ![c] = ReturnCreateErr]
    /\ UNCHANGED <<config, mu, lastRequest, attempt, clock, ctxErr, lastErr,
                   lastResp, sent, streak, sinceSent, lastSender>>
    /\ UNCHANGED hvars

\* c.httpClient.Do(req): with a context that is already done the transport
\* gives up before anything is written; otherwise the request goes out
Send(c) ==
    /\ pc[c] = "create"
    /\ IF ctxErr[c] # "nil"
       THEN /\ Continue(c, ExecuteErr)
            /\ streak' = Streak(c, "transport")
            /\ UNCHANGED <<sent, sinceSent, lastSender>>
       ELSE /\ pc' = [pc EXCEPT ![c] = "inflight"]
            /\ sent' = [sent EXCEPT ![c] = @ + 1]
            /\ sinceSent' = 0
            /\ lastSender' = c
            /\ UNCHANGED <<attempt, clock, lastErr, result, lastResp, streak>>
    /\ UNCHANGED <<config, mu, lastRequest, ctxErr>>
    /\ UNCHANGED hvars

\* (mutation of TransportFails: the failure is returned at once)
TransportFailsFatal(c) ==
    /\ pc[c] = "inflight"
    /\ \E e \in {ExecuteErr, ReadErr} :
         /\ lastErr' = [lastErr EXCEPT ![c] = e]
         /\ result' = [result EXCEPT ![c] = ReturnLastErr(e)]
    /\ pc' = [pc EXCEPT ![c] = "done"]
    /\ streak' = Streak(c, "transport")
    /\ UNCHANGED <<config, mu, lastRequest, attempt, clock, ctxErr, lastResp,
                   sent, sinceSent, lastSender>>
    /\ UNCHANGED hvars

\* Do returns an error, or io.ReadAll does
TransportFails(c) ==
    /\ pc[c] = "inflight"
    /\ \E e \in {ExecuteErr, ReadErr} : Continue(c, e)
    /\ streak' = Streak(c, "transport")
    /\ UNCHANGED <<config, mu, lastRequest, ctxErr, sent, sinceSent, lastSender>>
    /\ UNCHANGED hvars

\* a response, one of rs, was read: classify it
RespondWith(c, rs) ==
    /\ pc[c] = "inflight"
    /\ \E r \in rs :
        /\ lastResp' = [lastResp EXCEPT ![c] = r]
        /\ streak' = Streak(c, OutcomeKind(r))
        /\ IF IsRateLimited(r)
           THEN LET retryAfter == RetryAfterWait(r, attempt[c])
                IN  /\ lastErr' = [lastErr EXCEPT ![c] = RateLimitError(retryAfter)]
                    /\ StartTimer(c, retryAfter)
                    /\ pc' = [pc EXCEPT ![c] = "rlWait"]
                    /\ UNCHANGED result
           ELSE IF r.status # 200
           THEN /\ lastErr' = [lastErr EXCEPT ![c] = StatusErr(r.status, r.body)]
                /\ IF IsClientError(r.status)
                   THEN /\ pc' = [pc EXCEPT ![c] = "done"]
                        /\ result' = [result EXCEPT ![c] =
                                        ReturnLastErr(StatusErr(r.status, r.body))]
                        /\ UNCHANGED clock
                   ELSE /\ StartTimer(c, BackoffWait(attempt[c]))
                        /\ pc' = [pc EXCEPT ![c] = "srvWait"]
                        /\ UNCHANGED result
           ELSE /\ pc' = [pc EXCEPT ![c] = "done"]
                /\ result' = [result EXCEPT ![c] = ReturnBody(r.body)]
                /\ UNCHANGED <<lastErr, clock>>
    /\ UNCHANGED <<config, mu, lastRequest, attempt, ctxErr, sent, sinceSent,
                   lastSender>>
    /\ UNCHANGED hvars

\* the upstream answers with any response
Respond(c) == RespondWith(c, Responses)

\* the upstream is healthy: it answers 200, or 500 once in a while
RespondHealthy(c) ==
    RespondWith(c, {Response(200, PlainBody, NoHeader),
                    Response(500, PlainBody, <<"2">>)})

\* (mutation of BackoffWake: after the last attempt the wait is left out)
BackoffWakeSkipsLast(c) ==
    /\ pc[c] \in {"rlWait", "srvWait"}
    /\ timer[c] = 0 \/ attempt[c] = maxRetries
    /\ Continue(c, lastErr[c])
    /\ UNCHANGED <<config, mu, lastRequest, ctxErr, sent, streak, sinceSent,
                   lastSender>>
    /\ UNCHANGED hvars

\* case <-time.After(...): continue, in either backoff select
BackoffWake(c) ==
    /\ pc[c] \in {"rlWait", "srvWait"}
    /\ timer[c] = 0
    /\ Continue(c, lastErr[c])
    /\ UNCHANGED <<config, mu, lastRequest, ctxErr, sent, streak, sinceSent,
                   lastSender>>
    /\ UNCHANGED hvars

\* case <-ctx.Done(), in either backoff select
BackoffCtxDone(c) ==
    /\ pc[c] \in {"rlWait", "srvWait"}
    /\ ctxErr[c] # "nil"
    /\ ReturnFromWait(c)
    /\ UNCHANGED <<config, mu, lastRequest, attempt, ctxErr, lastErr, lastResp,
                   sent, streak, sinceSent, lastSender>>
    /\ UNCHANGED hvars

\* the caller cancels the context of a running call, or its deadline passes
CancelCtx(c) ==
    /\ pc[c] \notin {"idle", "done"}
    /\ ctxErr[c] = "nil"
    /\ \E e \in {"Canceled", "DeadlineExceeded"} :
         ctxErr' = [ctxErr EXCEPT ![c] = e]
    /\ UNCHANGED <<config, mu, lastRequest, pc, attempt, clock, lastErr, result,
                   lastResp, sent, streak, sinceSent, lastSender>>
    /\ UNCHANGED hvars

\* One second passes.  Between stamping the watermark and handing the
\* request to the transport the code does nothing that blocks, so the
\* request goes out at the instant the watermark names.
\* Ages are counted up to cap.
Elapse(cap) ==
    /\ \A c \in Calls : pc[c] # "create"
    /\ timer' = [c \in Calls |-> Max(timer[c] - 1, 0)]
    /\ waited' = [c \in Calls |-> IF timer[c] > 0 THEN waited[c] + 1 ELSE waited[c]]
    /\ lastRequest' = IF lastRequest >= cap THEN lastRequest ELSE lastRequest + 1
    /\ sinceSent' = IF sinceSent >= cap THEN sinceSent ELSE sinceSent + 1
    /\ UNCHANGED <<config, mu, pc, attempt, ctxErr, lastErr, result, lastResp,
                   sent, streak, lastSender>>
    /\ UNCHANGED hvars

Tick == Elapse(AgeCap)

Step(c) ==
    \/ Lock(c) \/ Throttle(c) \/ ThrottleWake(c) \/ ThrottleCtxDone(c)
    \/ Stamp(c) \/ CreateFails(c) \/ Send(c) \/ TransportFails(c)
    \/ Respond(c) \/ BackoffWake(c) \/ BackoffCtxDone(c)

Next ==
    \/ \E c \in Calls : Start(c) \/ Step(c) \/ CancelCtx(c) \/ Return(c)
    \/ Tick

\* calls issued one after another on one client
Spec == Init /\ [][Next]_vars

\* The same, with time passing and every running call getting to run:
\* httpClient.Do returns within the client's Timeout, and a goroutine that
\* can take a step is scheduled.
\* (The retry count and termination do not depend on the cadence: the
\* slowest one is taken, with every maxRetries.)
FairInit ==
    /\ Init
    /\ minInterval = MaxMinInterval
    /\ retryBaseWait = MaxBaseWait

FairSpec ==
    /\ FairInit
    /\ [][Next]_vars
    /\ WF_vars(Tick)
    /\ \A c \in Calls : WF_vars(Step(c))

\* Concurrent callers on one client, in front of a healthy upstream.
ConcurrentNext ==
    \/ \E c \in Calls :
         \/ StartConcurrent(c) \/ Lock(c) \/ Throttle(c) \/ ThrottleWake(c)
         \/ ThrottleCtxDone(c) \/ Stamp(c) \/ Send(c) \/ RespondHealthy(c)
         \/ BackoffWake(c) \/ BackoffCtxDone(c) \/ CancelCtx(c) \/ Return(c)
    \/ Tick

\* one configuration is enough to see the callers interleave
ConcurrentInit ==
    /\ Init
    /\ minInterval = MaxMinInterval
    /\ maxRetries = 1
    /\ retryBaseWait = 1

ConcurrentSpec == ConcurrentInit /\ [][ConcurrentNext]_vars

\* a Client that caller 1 has just used and left: callers that now each call
\* doRequest once, on the shortest cadence and with no retry, are what the
\* mutex sees of more callers
MutexInit ==
    /\ minInterval = 1
    /\ maxRetries = 0
    /\ retryBaseWait = 1
    /\ mu = NoCall
    /\ lastRequest = 0
    /\ pc = [c \in Calls |-> "idle"]
    /\ attempt = [c \in Calls |-> 0]
    /\ timer = [c \in Calls |-> 0]
    /\ waited = [c \in Calls |-> 0]
    /\ ctxErr = [c \in Calls |-> "nil"]
    /\ lastErr = [c \in Calls |-> NilErr]
    /\ result = [c \in Calls |-> NoResult]
    /\ lastResp = [c \in Calls |-> NoResponse]
    /\ sent = [c \in Calls |-> 0]
    /\ streak = [c \in Calls |-> "none"]
    /\ sinceSent = 0
    /\ lastSender = 1
    /\ bbClient = "api"
    /\ ServiceIdle
    /\ PagesIdle

MutexNext ==
    \/ \E c \in Calls :
         \/ StartConcurrent(c) \/ Lock(c) \/ Throttle(c) \/ ThrottleWake(c)
         \/ ThrottleCtxDone(c) \/ Stamp(c) \/ Send(c) \/ RespondHealthy(c)
         \/ BackoffWake(c) \/ BackoffCtxDone(c) \/ CancelCtx(c)
    \/ Tick

MutexSpec == MutexInit /\ [][MutexNext]_vars

\* ============================================================ the service
cvars == <<minInterval, maxRetries, retryBaseWait, mu, lastRequest, pc, attempt,
           timer, waited, ctxErr, lastErr, result, lastResp, sent, streak,
           sinceSent, lastSender>>
fixture == <<rolled, globalRand, computed, drawn>>

\* the requests the handler is given
Skus == {Sku6579543, Sku6543210, Sku6403111}
SkuLists == UNION { [1..n -> Skus] : n \in 0..MaxSkus }
StoreLists == { SubSeq(mockStores, 1, n) : n \in 0..Min(MaxStores, Len(mockStores)) }

\* (mutation of EmptyRequest: only the list of products is looked at)
EmptyRequestSkusOnly(skus, storeIDs) == Len(skus) = 0

\* len(storeIDs) == 0 || len(skus) == 0
EmptyRequest(skus, storeIDs) == Len(storeIDs) = 0 \/ Len(skus) = 0

\* (mutation of AppendResults: the records of the earlier products are dropped)
ReplaceResults(rs, new) == new

\* results = append(results, ...) over the records of one product
AppendResults(rs, new) == rs \o new

\* (mutation of AfterError: the product that failed is looked up again)
AfterErrorAgain(i) == i

\* `continue`: the loop goes to the next product
AfterError(i) == i + 1

\* the operation o of the real client starts: doRequest is entered with the
\* context ctx of the request
Invoke(o, ctx) ==
    /\ pc[TheCall] = "idle"
    /\ pc' = [pc EXCEPT ![TheCall] = "lock"]
    /\ ctxErr' = [ctxErr EXCEPT ![TheCall] = ctx]
    /\ op' = o
    /\ UNCHANGED <<config, mu, lastRequest, attempt, clock, lastErr, result,
                   lastResp, sent, streak, sinceSent, lastSender>>

\* the loop of CheckStock is at position i with results rs: it goes through
\* the next product, or is over and the handler returns
LoopAt(i, rs) ==
    /\ idx' = i
    /\ results' = rs
    /\ IF i > Len(reqSkus)
       THEN /\ hpc' = "done"
            /\ response' = Reply(rs, "nil")
       ELSE /\ hpc' = "meta"
            /\ UNCHANGED response

\* CheckStock is called
CheckStockBegin(skus, storeIDs) ==
    /\ hpc = "idle"
    /\ \A c \in Calls : pc[c] = "idle"
    /\ reqSkus' = skus
    /\ reqStores' = storeIDs
    /\ hctx' = "nil"
    /\ op' = NoOp
    /\ product' = ZeroProduct
    /\ results' = <<>>
    /\ lookups' = [i \in 1..Len(skus) |-> NoLookup]
    /\ IF EmptyRequest(skus, storeIDs)
       THEN /\ hpc' = "done"
            /\ response' = Reply(<<>>, "nil")
            /\ idx' = 0
       ELSE /\ hpc' = "meta"
            /\ response' = NoReply
            /\ idx' = 1
    /\ UNCHANGED <<cvars, pvars, bbClient, opRet, fixture>>

\* GetProductBySKU has returned r after n calls of it in this step
AfterGetProductBySKU(r, n) ==
    IF r.err # "nil"
    THEN /\ lookups' = [lookups EXCEPT ![idx] =
                          [@ EXCEPT !.meta = @ + n, !.state = "metaFailed"]]
         /\ LoopAt(AfterError(idx), results)
         /\ UNCHANGED product
    ELSE /\ lookups' = [lookups EXCEPT ![idx] =
                          [@ EXCEPT !.meta = @ + n, !.state = "found",
                                    !.product = r.product]]
         /\ product' = r.product
         /\ hpc' = "avail"
         /\ UNCHANGED <<idx, results, response>>

\* CheckAvailability has returned r after n calls of it in this step
AfterCheckAvailability(r, n) ==
    IF r.err # "nil"
    THEN /\ lookups' = [lookups EXCEPT ![idx] =
                          [@ EXCEPT !.avail = @ + n, !.state = "availFailed",
                                    !.stores = IF n = 1 THEN reqStores ELSE @]]
         /\ LoopAt(AfterError(idx), results)
    ELSE /\ lookups' = [lookups EXCEPT ![idx] =
                          [@ EXCEPT !.avail = @ + n, !.state = "ok",
                                    !.stores = IF n = 1 THEN reqStores ELSE @,
                                    !.records = r.list]]
         /\ LoopAt(idx + 1,
                   AppendResults(results,
                       [j \in 1..Len(r.list) |-> StockStatus(r.list[j], product)]))

\* h.bbClient.GetProductBySKU(ctx, sku) on the real client: the request starts
CallGetProductBySKU ==
    /\ hpc = "meta"
    /\ bbClient = "api"
    /\ Invoke(Op("GetProductBySKU", reqSkus[idx]), hctx)
    /\ hpc' = "metaWait"
    /\ lookups' = [lookups EXCEPT ![idx] = [@ EXCEPT !.meta = @ + 1]]
    /\ UNCHANGED <<pvars, bbClient, hctx, opRet, reqSkus, reqStores, idx, product,
                   results, response, fixture>>

\* ... and returns
GetProductBySKUReturns ==
    /\ hpc = "metaWait"
    /\ Leave(TheCall)
    /\ LET r == APIGetProductBySKU(result[TheCall])
       IN  /\ opRet' = OpRet(op.name, result[TheCall].kind # "ok", r.err,
                             result[TheCall].kind, lastResp[TheCall].status)
           /\ AfterGetProductBySKU(r, 0)
    /\ op' = NoOp
    /\ UNCHANGED <<pvars, bbClient, hctx, reqSkus, reqStores, fixture>>

\* h.bbClient.CheckAvailability(ctx, sku, storeIDs) on the real client
CallCheckAvailability ==
    /\ hpc = "avail"
    /\ bbClient = "api"
    /\ Invoke(Op("CheckAvailability", reqSkus[idx]), hctx)
    /\ hpc' = "availWait"
    /\ lookups' = [lookups EXCEPT ![idx] =
                      [@ EXCEPT !.avail = @ + 1, !.stores = reqStores]]
    /\ UNCHANGED <<pvars, bbClient, hctx, opRet, reqSkus, reqStores, idx, product,
                   results, response, fixture>>

\* ... and returns
CheckAvailabilityReturns ==
    /\ hpc = "availWait"
    /\ Leave(TheCall)
    /\ LET r == APICheckAvailability(result[TheCall], Endpoint(op, reqStores))
       IN  /\ opRet' = OpRet(op.name, result[TheCall].kind # "ok", r.err,
                             result[TheCall].kind, lastResp[TheCall].status)
           /\ AfterCheckAvailability(r, 0)
    /\ op' = NoOp
    /\ UNCHANGED <<pvars, bbClient, hctx, reqSkus, reqStores, product, fixture>>

\* h.bbClient.GetProductBySKU(ctx, sku) on the fixture client
MockGetProductBySKUReturns ==
    /\ hpc = "meta"
    /\ bbClient = "mock"
    /\ AfterGetProductBySKU(MockGetProductBySKU(hctx, reqSkus[idx]), 1)
    /\ UNCHANGED <<cvars, pvars, bbClient, hctx, op, opRet, reqSkus, reqStores, fixture>>

\* h.bbClient.CheckAvailability(ctx, sku, ...) on the fixture client, which
\* goes through all of mockStores whatever stores it is asked about.  A seed
\* that is used for the first time gets its roll here; the roll of a seed
\* that was used before is the one it got then.
MockCheckAvailabilityReturns ==
    /\ hpc = "avail"
    /\ bbClient = "mock"
    /\ IF hctx # "nil"
       THEN /\ AfterCheckAvailability(Ret(hctx, ZeroProduct, <<>>), 1)
            /\ UNCHANGED fixture
       ELSE IF FindProduct(reqSkus[idx]) = {}
       THEN /\ AfterCheckAvailability(Ret("notFound", ZeroProduct, <<>>), 1)
            /\ UNCHANGED fixture
       ELSE \E memo \in [MockSeeds -> Rolls] :
              LET p == CHOOSE x \in FindProduct(reqSkus[idx]) : TRUE
                  used == { Seed(mockStores[i], p.SKU) : i \in 1..Len(mockStores) }
                  all == Classify(p, memo, globalRand)
              IN  /\ \A seed \in MockSeeds :
                        rolled[seed] # NotRolled => memo[seed] = rolled[seed]
                  /\ rolled' = [seed \in MockSeeds |->
                                  IF seed \in used THEN memo[seed] ELSE rolled[seed]]
                  /\ computed' = computed \cup
                        { [Sku |-> p.SKU, value |-> all[i]] : i \in 1..Len(all) }
                  /\ AfterCheckAvailability(
                        Ret("nil", ZeroProduct, MockAvailability(p, memo, globalRand)), 1)
                  /\ UNCHANGED <<globalRand, drawn>>
    /\ UNCHANGED <<cvars, pvars, bbClient, hctx, op, opRet, reqSkus, reqStores, product>>

\* MockClient.SearchStores, for another request: unless its context is done
\* during the latency, it draws an Intn and a Float64 per store from the
\* global source
MockSearchStores ==
    /\ bbClient = "mock"
    /\ \E e \in {"nil", "Canceled"} :
         /\ globalRand' = IF e = "nil"
                          THEN (globalRand + 2 * Len(mockStores)) % Len(GlobalStream)
                          ELSE globalRand
         /\ drawn' = (drawn \/ (/\ e = "nil"
                                /\ hpc \in {"meta", "avail"}
                                /\ \E i \in 1..Len(lookups) : lookups[i].state = "ok"))
    /\ UNCHANGED <<cvars, pvars, bbClient, hpc, hctx, op, opRet, reqSkus, reqStores, idx,
                   product, results, response, lookups, rolled, computed>>

\* the operations the other handlers call on the client
DirectOps ==
    { Op("SearchStores", PostalCode94103),
      Op("SearchProducts", "pikachu"),
      Op("SearchProducts", Sku6579543),
      Op("SearchProductsInCategory", "pikachu"),
      Op("BrowsePokemonProducts", "") }

\* one of them is called on the real client; SearchProducts with a query
\* that looks like a SKU starts with GetProductBySKU
ClientCall(o) ==
    /\ hpc = "idle"
    /\ bbClient = "api"
    /\ \A c \in Calls : pc[c] = "idle"
    /\ IF o.name = "SearchProducts" /\ SkuPattern(o.id)
       THEN /\ Invoke(Op("GetProductBySKU", o.id), "nil")
            /\ hpc' = "skuWait"
       ELSE /\ Invoke(o, "nil")
            /\ hpc' = "opWait"
    /\ hctx' = "nil"
    /\ reqSkus' = <<>>
    /\ reqStores' = <<>>
    /\ idx' = 0
    /\ product' = ZeroProduct
    /\ results' = <<>>
    /\ response' = NoReply
    /\ lookups' = <<>>
    /\ UNCHANGED <<pvars, bbClient, opRet, fixture>>

\* the GetProductBySKU of SearchProducts returns: a product with a SKU is
\* the result, anything else falls back to the search
SkuLookupReturns ==
    /\ hpc = "skuWait"
    /\ Leave(TheCall)
    /\ LET r == APIGetProductBySKU(result[TheCall])
       IN  IF r.err = "nil" /\ r.product.SKU # ZeroProduct.SKU
           THEN /\ hpc' = "opDone"
                /\ op' = NoOp
                /\ opRet' = OpRet("SearchProducts", FALSE, "nil",
                                     result[TheCall].kind, lastResp[TheCall].status)
                /\ response' = Reply(<<r.product.SKU>>, "nil")
           ELSE /\ hpc' = "search"
                /\ op' = Op("SearchProducts", op.id)
                /\ opRet' = OpRet(op.name, result[TheCall].kind # "ok", r.err,
                             result[TheCall].kind, lastResp[TheCall].status)
                /\ UNCHANGED response
    /\ UNCHANGED <<pvars, bbClient, hctx, reqSkus, reqStores, idx, product, results,
                   lookups, fixture>>

\* the search request of SearchProducts after the fallback
SearchProductsSearch ==
    /\ hpc = "search"
    /\ Invoke(op, hctx)
    /\ hpc' = "opWait"
    /\ UNCHANGED <<pvars, bbClient, hctx, opRet, reqSkus, reqStores, idx, product,
                   results, response, lookups, fixture>>

\* the request of SearchStores, SearchProducts, SearchProductsInCategory or
\* BrowsePokemonProducts returns, and the handler answers
ClientReturns ==
    /\ hpc = "opWait"
    /\ Leave(TheCall)
    /\ LET r == APIList(result[TheCall])
       IN  /\ opRet' = OpRet(op.name, result[TheCall].kind # "ok", r.err,
                             result[TheCall].kind, lastResp[TheCall].status)
           /\ response' = IF r.err # "nil" THEN Reply(<<>>, "internal")
                          ELSE Reply(r.list, "nil")
    /\ hpc' = "opDone"
    /\ op' = NoOp
    /\ UNCHANGED <<pvars, bbClient, hctx, reqSkus, reqStores, idx, product, results,
                   lookups, fixture>>

\* the handler has returned: its frame is gone
HandlerReturns ==
    /\ hpc \in {"done", "opDone"}
    /\ hpc' = "idle"
    /\ hctx' = "nil"
    /\ op' = NoOp
    /\ opRet' = NoOpRet
    /\ reqSkus' = <<>>
    /\ reqStores' = <<>>
    /\ idx' = 0
    /\ product' = ZeroProduct
    /\ results' = <<>>
    /\ response' = NoReply
    /\ lookups' = <<>>
    /\ drawn' = FALSE
    /\ UNCHANGED <<cvars, pvars, bbClient, rolled, globalRand, computed>>

\* the caller of the handler goes away: the context of the request is
\* cancelled, and with it the request of the client that is under way
CancelRequest ==
    /\ hpc \notin {"idle", "done", "opDone"}
    /\ hctx = "nil"
    /\ hctx' = "Canceled"
    /\ ctxErr' = IF pc[TheCall] \notin {"idle", "done"}
                 THEN [ctxErr EXCEPT ![TheCall] = "Canceled"]
                 ELSE ctxErr
    /\ UNCHANGED <<config, mu, lastRequest, pc, attempt, clock, lastErr, result,
                   lastResp, sent, streak, sinceSent, lastSender>>
    /\ UNCHANGED <<pvars, bbClient, hpc, op, opRet, reqSkus, reqStores, idx, product,
                   results, response, lookups, fixture>>

\* the catalog answers the request of the operation in progress
RespondUpstream(c) == RespondWith(c, UpstreamAnswers(op, reqStores))

\* one second passes for the service; to the throttle of its client every
\* age from minInterval on is the same
ServiceTick == Elapse(minInterval)

\* the handler, the client it was built with, and the catalog
ServiceNext ==
    \/ \E skus \in SkuLists, storeIDs \in StoreLists : CheckStockBegin(skus, storeIDs)
    \/ CallGetProductBySKU \/ GetProductBySKUReturns
    \/ CallCheckAvailability \/ CheckAvailabilityReturns
    \/ MockGetProductBySKUReturns \/ MockCheckAvailabilityReturns
    \/ MockSearchStores
    \/ \E o \in DirectOps : ClientCall(o)
    \/ SkuLookupReturns \/ SearchProductsSearch \/ ClientReturns
    \/ CancelRequest \/ HandlerReturns
    \/ Lock(TheCall) \/ Throttle(TheCall) \/ ThrottleWake(TheCall)
    \/ ThrottleCtxDone(TheCall) \/ Stamp(TheCall) \/ Send(TheCall)
    \/ TransportFails(TheCall) \/ RespondUpstream(TheCall)
    \/ BackoffWake(TheCall) \/ BackoffCtxDone(TheCall)
    \/ ServiceTick

\* main: the client is the real one or the fixture; one cadence is enough
\* for what the handler does with the outcomes
ServiceInit ==
    /\ ClientInit
    /\ minInterval = 1
    /\ maxRetries = 0
    /\ retryBaseWait = 1
    /\ bbClient \in {"api", "mock"}
    /\ ServiceIdle
    /\ PagesIdle

ServiceSpec == ServiceInit /\ [][ServiceNext]_vars

\* a backend with nothing in progress, under which the rest is looked at
BackendIdle ==
    /\ ClientInit
    /\ minInterval = 1
    /\ maxRetries = 0
    /\ retryBaseWait = 1
    /\ bbClient = "mock"
    /\ ServiceIdle

\* ---------------------------------------------------------------- fixture
\* rng.Float64() is in [0, 1); the thresholds are whole hundredths
RollUnits == 100

\* mock CheckAvailability for one store: the roll r decides for product p
ClassifyRoll(p, r) ==
    /\ rollValue' = r
    /\ rollProduct' = p
    /\ classified' = [inStock |-> InStock(p, r),
                      lowStock |-> LowStock(p, r),
                      listed |-> Listed(InStock(p, r))]
    /\ UNCHANGED <<cvars, svars, gvars, lvars, avars>>

FixtureNext ==
    \E i \in 1..Len(mockProducts), r \in 0..(RollUnits - 1) :
        ClassifyRoll(mockProducts[i], r)

FixtureInit ==
    /\ BackendIdle
    /\ AuthIdle
    /\ RollIdle
    /\ PageIdle
    /\ ListIdle

FixtureSpec == FixtureInit /\ [][FixtureNext]_vars

\* ---------------------------------------------------------------- CheckStock page
MaxResults == 3

\* names stand for their place in the collation order, 0 for a missing one
PageProducts ==
    { [name |-> 1, salePrice |-> 10], [name |-> 2, salePrice |-> 0] }
PageStores ==
    { [name |-> 1, distanceMiles |-> 3], [name |-> 2, distanceMiles |-> 8],
      [name |-> 3, distanceMiles |-> 0], [name |-> 4, distanceMiles |-> 5] }
\* the stores of the request's storeIds
SavedStoreNames == {1, 2}

\* StockStatus messages of a response
StockStatuses ==
    { [product |-> p, store |-> st, isMyStore |-> st.name \in SavedStoreNames,
       inStock |-> f[1], lowStock |-> f[2]] :
        p \in PageProducts, st \in PageStores,
        f \in {<<FALSE, FALSE>>, <<TRUE, TRUE>>, <<TRUE, FALSE>>} }

\* response.results: one record for a product and a store
ResultLists ==
    { rs \in UNION { [1..n -> StockStatuses] : n \in 0..MaxResults } :
        \A i, j \in DOMAIN rs :
            (rs[i].product = rs[j].product /\ rs[i].store = rs[j].store) => i = j }

\* x || d on numbers
OrElse(x, d) == IF x = 0 THEN d ELSE x

\* a.inStock ? (a.lowStock ? 1 : 2) : 0
StatusOf(a) == IF a.inStock THEN (IF a.lowStock THEN 1 ELSE 2) ELSE 0

\* the switch of the comparator
Comparison(a, b, field) ==
    CASE field = "myStore" ->
            LET c == (IF b.isMyStore THEN 1 ELSE 0) - (IF a.isMyStore THEN 1 ELSE 0)
            IN  IF c = 0
                THEN OrElse(a.store.distanceMiles, 999)
                        - OrElse(b.store.distanceMiles, 999)
                ELSE c
      [] field = "status" -> StatusOf(b) - StatusOf(a)
      [] field = "product" -> a.product.name - b.product.name
      [] field = "store" -> a.store.name - b.store.name
      [] field = "price" -> OrElse(a.product.salePrice, 0)
                                - OrElse(b.product.salePrice, 0)
      [] field = "distance" -> OrElse(a.store.distanceMiles, 999)
                                - OrElse(b.store.distanceMiles, 999)

\* return sortDirection === 'asc' ? comparison : -comparison
Comparator(a, b, field, direction) ==
    IF direction = "asc" THEN Comparison(a, b, field)
    ELSE 0 - Comparison(a, b, field)

RECURSIVE InsertStable(_, _, _, _)
\* x, which came after all of sorted, goes after what does not follow it
InsertStable(x, sorted, field, direction) ==
    IF sorted = <<>> THEN <<x>>
    ELSE LET last == sorted[Len(sorted)]
         IN  IF Comparator(last, x, field, direction) > 0
             THEN Append(InsertStable(x, SubSeq(sorted, 1, Len(sorted) - 1),
                                      field, direction), last)
             ELSE Append(sorted, x)

RECURSIVE SortResults(_, _, _)
\* [...results].sort(comparator): Array.prototype.sort is stable
SortResults(rs, field, direction) ==
    IF rs = <<>> THEN <<>>
    ELSE InsertStable(rs[Len(rs)],
                      SortResults(SubSeq(rs, 1, Len(rs) - 1), field, direction),
                      field, direction)

\* the column headers of the two revisions
SortButtons(v) ==
    IF v = 1 THEN {"status", "product", "price", "store"}
    ELSE {"myStore", "product", "store", "distance"}

\* setSortDirection(...) of a newly chosen field
DefaultDirection(v, field) ==
    IF v = 1 THEN (IF field = "status" THEN "desc" ELSE "asc")
    ELSE (IF field = "distance" THEN "asc" ELSE "desc")

\* handleCheckStock up to the call of the server
HandleCheckStock ==
    /\ ~loading
    /\ loading' = TRUE
    /\ pageResults' = <<>>
    /\ sortedResults' = SortResults(<<>>, sortField, sortDirection)
    /\ UNCHANGED <<pageVersion, sortField, sortDirection>>
    /\ UNCHANGED <<cvars, svars, rvars, lvars, avars>>

\* the server answers: setResults(response.results)
CheckStockResponds(rs) ==
    /\ loading
    /\ loading' = FALSE
    /\ pageResults' = rs
    /\ sortedResults' = SortResults(rs, sortField, sortDirection)
    /\ UNCHANGED <<pageVersion, sortField, sortDirection>>
    /\ UNCHANGED <<cvars, svars, rvars, lvars, avars>>

\* the call of the server throws
CheckStockThrows ==
    /\ loading
    /\ loading' = FALSE
    /\ UNCHANGED <<pageVersion, pageResults, sortField, sortDirection,
                   sortedResults>>
    /\ UNCHANGED <<cvars, svars, rvars, lvars, avars>>

\* handleSort, from a column header of the table of results
HandleSort(field) ==
    /\ ~loading
    /\ Len(pageResults) > 0
    /\ field \in SortButtons(pageVersion)
    /\ IF field = sortField
       THEN /\ sortDirection' = IF sortDirection = "asc" THEN "desc" ELSE "asc"
            /\ sortField' = sortField
       ELSE /\ sortField' = field
            /\ sortDirection' = DefaultDirection(pageVersion, field)
    /\ sortedResults' = SortResults(pageResults, sortField', sortDirection')
    /\ UNCHANGED <<pageVersion, loading, pageResults>>
    /\ UNCHANGED <<cvars, svars, rvars, lvars, avars>>

SortFields == {"status", "product", "store", "price", "distance", "myStore"}
\* what the server may answer to the call under way
PageResponses == IF loading THEN ResultLists ELSE {}

PageNext ==
    \/ HandleCheckStock
    \/ \E rs \in PageResponses : CheckStockResponds(rs)
    \/ CheckStockThrows
    \/ \E field \in SortFields : HandleSort(field)

PageInit ==
    /\ BackendIdle
    /\ AuthIdle
    /\ RollIdle
    /\ ListIdle
    /\ \E v \in {1, 2} : PageMounted(v)

PageSpec == PageInit /\ [][PageNext]_vars

\* ---------------------------------------------------------------- My Stores
MaxList == 4
MaxPending == 2
StoreIds == {"1118", "187"}

\* the storeIds of a list
IdSet(list) == { list[i] : i \in DOMAIN list }
\* prev.some((s) => s.storeId === id)
InList(list, id) == id \in IdSet(list)
\* prev.filter((s) => s.storeId !== id)
Without(list, id) == SelectSeq(list, LAMBDA x : x # id)

\* a call of the server under way: addMyStore or removeMyStore of id;
\* removedStore is what stores.find gave; before and alone record the
\* storeIds when the operation was invoked and that nothing else has
\* touched the list since (history)
ServerCall(kind, id, found, list) ==
    [kind |-> kind, id |-> id, removedStore |-> found, before |-> IdSet(list),
     alone |-> TRUE]

\* another operation touches the list
Disturbed(cs) == [k \in DOMAIN cs |-> [cs[k] EXCEPT !.alone = FALSE]]
\* the calls without call k
Answered(cs, k) == SubSeq(cs, 1, k - 1) \o SubSeq(cs, k + 1, Len(cs))

\* if (isAuthenticated) { await client... }
Await(call) ==
    IF isAuthenticated
    THEN /\ Len(serverCalls) < MaxPending
         /\ serverCalls' = Append(Disturbed(serverCalls), call)
    ELSE serverCalls' = Disturbed(serverCalls)

\* addStore up to the await
AddStore(id) ==
    /\ InList(myStores, id) \/ Len(myStores) < MaxList
    /\ myStores' = IF InList(myStores, id) THEN myStores ELSE Append(myStores, id)
    /\ Await(ServerCall("add", id, FALSE, myStores))
    /\ UNCHANGED isAuthenticated
    /\ UNCHANGED <<cvars, svars, rvars, gvars, avars>>

\* removeStore up to the await
RemoveStore(id) ==
    /\ myStores' = Without(myStores, id)
    /\ Await(ServerCall("remove", id, InList(myStores, id), myStores))
    /\ UNCHANGED isAuthenticated
    /\ UNCHANGED <<cvars, svars, rvars, gvars, avars>>

\* clearStores
ClearStores ==
    /\ myStores' = <<>>
    /\ serverCalls' = Disturbed(serverCalls)
    /\ UNCHANGED isAuthenticated
    /\ UNCHANGED <<cvars, svars, rvars, gvars, avars>>

\* the server answers call k: the await returns
ServerAnswers(k) ==
    /\ k \in DOMAIN serverCalls
    /\ serverCalls' = Answered(serverCalls, k)
    /\ UNCHANGED <<isAuthenticated, myStores>>
    /\ UNCHANGED <<cvars, svars, rvars, gvars, avars>>

\* the catch blocks: "Revert on failure"
Reverted(list, call) ==
    IF call.kind = "add" THEN Without(list, call.id)
    ELSE IF call.removedStore THEN Append(list, call.id)
    ELSE list

\* call k of the server fails: the await throws
ServerFails(k) ==
    /\ k \in DOMAIN serverCalls
    /\ Len(Reverted(myStores, serverCalls[k])) <= MaxList
    /\ myStores' = Reverted(myStores, serverCalls[k])
    /\ serverCalls' = Disturbed(Answered(serverCalls, k))
    /\ UNCHANGED isAuthenticated
    /\ UNCHANGED <<cvars, svars, rvars, gvars, avars>>

ListNext ==
    \/ \E id \in StoreIds : AddStore(id)
    \/ \E id \in StoreIds : RemoveStore(id)
    \/ ClearStores
    \/ \E k \in 1..MaxPending : ServerAnswers(k)
    \/ \E k \in 1..MaxPending : ServerFails(k)

\* the lists loadStores can set: what the server or localStorage holds
LoadedLists ==
    { list \in UNION { [1..n -> StoreIds] : n \in 0..Cardinality(StoreIds) } :
        \A i, j \in DOMAIN list : list[i] = list[j] => i = j }

ListInit ==
    /\ BackendIdle
    /\ AuthIdle
    /\ RollIdle
    /\ PageIdle
    /\ isAuthenticated \in BOOLEAN
    /\ myStores \in LoadedLists
    /\ serverCalls = <<>>

ListSpec == ListInit /\ [][ListNext]_vars

\* ---------------------------------------------------------------- sign-in
MaxTime == 4
\* SessionDuration, in the unit of dbNow
SessionDuration == 2
\* what generateToken can return: 32 random bytes, never the same twice
Tokens == {"t1", "t2"}
\* what a request can carry as session_token: a token, something made up,
\* or no cookie
Cookies == Tokens \cup {"forged", NoCookie}
UserIDs == {1, 2}

\* HandleCallback, all of its checks passed, for user u: CreateSession
HandleCallback(u, token) ==
    /\ authHandler # "nil"
    /\ token \notin { i.token : i \in issued }
    /\ LET row == [token |-> token, userID |-> u,
                   expiresAt |-> dbNow + SessionDuration]
       IN  /\ sessions' = sessions \cup {row}
           /\ issued' = issued \cup {row}
    /\ UNCHANGED <<authHandler, dbNow, loggedOut, served>>
    /\ UNCHANGED <<cvars, svars, rvars, gvars, lvars>>

\* HandleCallback leaves by one of its error returns, or by the redirect of
\* an address that is not allowed, before CreateSession or with it failing
HandleCallbackRefuses ==
    /\ authHandler # "nil"
    /\ UNCHANGED vars

\* DELETE FROM sessions WHERE token = $1
DeleteSession(rows, token) == { row \in rows : row.token # token }

\* HandleLogout; the error of DeleteSession is dropped
HandleLogout(cookie, dbOk) ==
    /\ authHandler # "nil"
    /\ IF cookie # NoCookie /\ dbOk
       THEN /\ sessions' = DeleteSession(sessions, cookie)
            /\ loggedOut' = IF \E row \in sessions : row.token = cookie
                            THEN loggedOut \cup {cookie} ELSE loggedOut
       ELSE UNCHANGED <<sessions, loggedOut>>
    /\ UNCHANGED <<authHandler, dbNow, issued, served>>
    /\ UNCHANGED <<cvars, svars, rvars, gvars, lvars>>

\* (mutation of GetSession: the expiry is not looked at)
GetSessionAnyAge(rows, token, now) == { row \in rows : row.token = token }

\* SELECT ... FROM sessions WHERE token = $1 AND expires_at > NOW()
GetSession(rows, token, now) ==
    { row \in rows : row.token = token /\ row.expiresAt > now }

\* GetUserFromRequest: nil error or not
GetUserFromRequest(cookie, dbOk) ==
    /\ cookie # NoCookie
    /\ dbOk
    /\ GetSession(sessions, cookie, dbNow) # {}

\* a request to the service goes through Middleware
Middleware(cookie, dbOk) ==
    /\ authHandler # "nil"
    /\ served' = [cookie |-> cookie,
                  outcome |-> IF GetUserFromRequest(cookie, dbOk)
                              THEN "handler" ELSE "401",
                  n |-> 1 - served.n]
    /\ UNCHANGED <<authHandler, sessions, dbNow, issued, loggedOut>>
    /\ UNCHANGED <<cvars, svars, rvars, gvars, lvars>>

\* without sign-in the service is mounted as it is
ServeDirect(cookie) ==
    /\ authHandler = "nil"
    /\ served' = [cookie |-> cookie, outcome |-> "handler", n |-> 1 - served.n]
    /\ UNCHANGED <<authHandler, sessions, dbNow, issued, loggedOut>>
    /\ UNCHANGED <<cvars, svars, rvars, gvars, lvars>>

\* time passes
AuthTick ==
    /\ dbNow < MaxTime
    /\ dbNow' = dbNow + 1
    /\ UNCHANGED <<authHandler, sessions, issued, loggedOut, served>>
    /\ UNCHANGED <<cvars, svars, rvars, gvars, lvars>>

AuthNext ==
    \/ \E u \in UserIDs, token \in Tokens : HandleCallback(u, token)
    \/ HandleCallbackRefuses
    \/ \E cookie \in Cookies, dbOk \in BOOLEAN : HandleLogout(cookie, dbOk)
    \/ \E cookie \in Cookies, dbOk \in BOOLEAN : Middleware(cookie, dbOk)
    \/ \E cookie \in Cookies : ServeDirect(cookie)
    \/ AuthTick

AuthInit ==
    /\ BackendIdle
    /\ RollIdle
    /\ PageIdle
    /\ ListIdle
    /\ \E h \in {"nil", "auth"} : AuthStarted(h)

AuthSpec == AuthInit /\ [][AuthNext]_vars

\* ================================================================ claims
WaitStates == {"sleep", "rlWait", "srvWait"}
\* call c puts a request on the wire in this step
Sends(c) == sent'[c] = sent[c] + 1

\* C1: with calls issued one after another, every request that is sent,
\* first attempt or retry, goes out at least minInterval after the request
\* sent before it (sinceSent is the age of that earlier request).
C1_SequentialGap ==
    [][\A c \in Calls : Sends(c) => sinceSent >= minInterval]_vars

\* a retry on the wire, right behind a request of the same call
C1_Witness ==
    \E c \in Calls : pc[c] = "inflight" /\ sent[c] >= 2 /\ sinceSent = 0

\* C2: with overlapping calls, a request is never sent less than minInterval
\* after a request of another call.
C2_ConcurrentGap ==
    [][\A c \in Calls :
         Sends(c) /\ lastSender \notin {c, NoCall} => sinceSent >= minInterval]_vars

\* the response of c's latest attempt is a 4xx outside the rate-limit case
\* (the case is spelled out here as the claims word it)
RateLimitedAsClaimed(r) ==
    \/ r.status = 429
    \/ r.status = 403 /\ Contains(r.body, <<"per", "second", "limit">>)
TerminalClientError(c) ==
    /\ lastResp[c].status >= 400
    /\ lastResp[c].status <= 499
    /\ ~RateLimitedAsClaimed(lastResp[c])

\* C3 as stated: a 4xx response outside the rate-limit case means that the
\* call sent exactly one request, and it returns the status and the body.
C3_ExactlyOneRequest ==
    \A c \in Calls :
        TerminalClientError(c) =>
            /\ sent[c] = 1
            /\ result[c] = ReturnLastErr(StatusErr(lastResp[c].status, lastResp[c].body))

\* C3 amended: a 4xx response outside the rate-limit case ends the call in
\* the step that reads it: the call has returned an error with the status
\* and the body, no wait was started, and no request follows the one that
\* was answered, so the call sent one request per attempt up to this one
\* (exactly one when the 4xx answers the first attempt).
C3_TerminalClientError ==
    \A c \in Calls :
        TerminalClientError(c) =>
            /\ pc[c] = "done"
            /\ result[c] = ReturnLastErr(StatusErr(lastResp[c].status, lastResp[c].body))
            /\ timer[c] = 0
            /\ sent[c] = attempt[c] + 1
            /\ (attempt[c] = 0 => sent[c] = 1)

\* a 403 without the phrase ends a call on its second attempt
C3_Witness ==
    \E c \in Calls :
        /\ TerminalClientError(c)
        /\ lastResp[c].status = 403
        /\ pc[c] = "done"
        /\ sent[c] = 2

\* C5: a response with a status from 200 through 299 ends the call in the
\* step that reads it, and the call returns the body and no error.
C5_Any2xxReturnsBody ==
    \A c \in Calls :
        (lastResp[c].status >= 200 /\ lastResp[c].status <= 299) =>
            /\ pc[c] = "done"
            /\ result[c] = ReturnBody(lastResp[c].body)

\* C6: a response is treated as rate-limited (the call waits in the
\* rate-limit select with a RateLimitError as lastErr) exactly when its
\* status is 429 or its status is 403 and the body holds the phrase; the
\* wait ends in another attempt unless the context ends it; a 403 without
\* the phrase ends the call at once.
C6_RateLimitClassification ==
    [][\A c \in Calls :
         /\ (pc[c] = "inflight" /\ lastResp'[c] # NoResponse) =>
               /\ (pc'[c] = "rlWait") = RateLimitedAsClaimed(lastResp'[c])
               /\ pc'[c] = "rlWait" => lastErr'[c].kind = "rateLimit"
               /\ (lastResp'[c].status = 403 /\ ~RateLimitedAsClaimed(lastResp'[c])) =>
                     /\ pc'[c] = "done"
                     /\ result'[c].kind = "error"
                     /\ sent'[c] = sent[c]
         /\ (pc[c] = "rlWait" /\ pc'[c] # "rlWait" /\ attempt[c] < maxRetries) =>
               \/ pc'[c] = "lock" /\ attempt'[c] = attempt[c] + 1 /\ timer[c] = 0
               \/ ctxErr[c] # "nil" /\ pc'[c] = "done"
      ]_vars

\* a 403 with the phrase was retried and the retry is on the wire
C6_Witness ==
    \E c \in Calls :
        /\ pc[c] = "inflight"
        /\ attempt[c] >= 1
        /\ lastErr[c].kind = "rateLimit"
        /\ streak[c] = "rateLimited"

\* C4: a call whose attempts were all answered 5xx and whose context was
\* never cancelled has, once it is over, sent maxRetries + 1 requests and
\* returned the exhaustion error around the last 5xx answer; and every
\* call that was started comes to an end.
C4_ServerErrorsExhaust ==
    /\ [](\A c \in Calls :
            (pc[c] = "done" /\ streak[c] = "5xx" /\ ctxErr[c] = "nil") =>
                /\ sent[c] = maxRetries + 1
                /\ lastResp[c].status >= 500
                /\ lastResp[c].status <= 599
                /\ result[c] = ReturnExhausted(
                                  StatusErr(lastResp[c].status, lastResp[c].body)))
    /\ \A c \in Calls : (pc[c] \notin {"idle", "done"}) ~> (pc[c] = "done")

\* a call that met nothing but 5xx is over, its last answer a 503
C4_Witness ==
    \E c \in Calls :
        /\ pc[c] = "done"
        /\ streak[c] = "5xx"
        /\ ctxErr[c] = "nil"
        /\ maxRetries >= 1
        /\ sent[c] = maxRetries + 1
        /\ lastResp[c].status = 503

\* the Retry-After value of the response of c's latest attempt
RetryAfterOf(c) == ParseDuration(lastResp[c].retryAfter \o <<"s">>)
HasRetryAfter(c) == lastResp[c].retryAfter # NoHeader /\ RetryAfterOf(c).ok
\* retryBaseWait * 2^n for c's current attempt n
ExponentialDefault(c) == retryBaseWait * Pow2(attempt[c])
\* the timer of c's wait is one of d ticks, `waited` of them gone
TimerRuns(c, d) == timer[c] = Max(d - waited[c], 0)
\* c leaves its wait for the next round of the loop
WakesUp(c) == attempt'[c] = attempt[c] + 1

\* C7: in the wait that follows a rate-limited response with a parseable
\* Retry-After different from the exponential default, the timer runs for
\* the Retry-After duration, the RateLimitError records that duration, and
\* the call does not go on before that much time has passed.
C7_RetryAfterHonoured ==
    [][\A c \in Calls :
         (pc[c] = "rlWait" /\ HasRetryAfter(c)
            /\ RetryAfterOf(c).d # ExponentialDefault(c)) =>
               /\ TimerRuns(c, RetryAfterOf(c).d)
               /\ lastErr[c] = RateLimitError(RetryAfterOf(c).d)
               /\ WakesUp(c) => waited[c] >= RetryAfterOf(c).d
      ]_vars

\* a call goes on after a rate-limit wait longer than the default
C7_Witness ==
    \E c \in Calls :
        /\ pc[c] = "lock"
        /\ attempt[c] >= 1
        /\ lastErr[c].kind = "rateLimit"
        /\ lastErr[c].retryAfter > retryBaseWait * Pow2(attempt[c] - 1)

\* C8: after attempt n the wait is retryBaseWait * 2^n, both for a
\* rate-limited response without a parseable Retry-After and for a 5xx
\* response, whatever Retry-After the 5xx response carries.
C8_ExponentialBackoff ==
    [][\A c \in Calls :
         (\/ pc[c] = "rlWait" /\ ~HasRetryAfter(c)
          \/ pc[c] = "srvWait" /\ lastResp[c].status >= 500
                               /\ lastResp[c].status <= 599) =>
               /\ TimerRuns(c, ExponentialDefault(c))
               /\ WakesUp(c) => waited[c] >= ExponentialDefault(c)
      ]_vars

\* the third attempt got a 500 with a Retry-After and its wait has run out
C8_Witness ==
    \E c \in Calls :
        /\ pc[c] = "srvWait"
        /\ attempt[c] = 2
        /\ lastResp[c].status = 500
        /\ lastResp[c].retryAfter # NoHeader
        /\ timer[c] = 0
        /\ waited[c] = ExponentialDefault(c)

\* C9: when a call is in a wait whose timer has not run out and its context
\* is done, the call can return at once; its next step is that return, with
\* the context's error and without a request; and a call that returned the
\* context's error sends nothing more.
C9_CancellationInterruptsWaits ==
    [][\A c \in Calls :
         /\ (pc[c] \in WaitStates /\ ctxErr[c] # "nil" /\ timer[c] > 0) =>
               /\ ENABLED (ThrottleCtxDone(c) \/ BackoffCtxDone(c))
               /\ pc'[c] # pc[c] =>
                     /\ pc'[c] = "done"
                     /\ result'[c] = Res(ctxErr[c], NilErr, <<>>)
                     /\ result'[c].kind \in {"Canceled", "DeadlineExceeded"}
                     /\ sent'[c] = sent[c]
         /\ (pc[c] = "done" /\ result[c].kind \in {"Canceled", "DeadlineExceeded"}) =>
               ~Sends(c)
      ]_vars

\* a deadline passed during a 5xx backoff and the call returned early
C9_Witness ==
    \E c \in Calls :
        /\ pc[c] = "done"
        /\ result[c].kind = "DeadlineExceeded"
        /\ lastErr[c].kind = "status"
        /\ waited[c] < ExponentialDefault(c)

\* C10: an attempt that is about to hand its request to the transport has
\* stamped the watermark with its own time (the watermark's age is zero),
\* first attempt or retry; so the watermark is never older than the latest
\* request that was sent, which is what the next call is throttled against.
C10_WatermarkEveryAttempt ==
    /\ \A c \in Calls : pc[c] = "create" => lastRequest = 0
    /\ lastRequest <= sinceSent

\* a retry is about to be sent, the request before it minInterval ago
C10_Witness ==
    \E c \in Calls :
        /\ pc[c] = "create"
        /\ attempt[c] >= 1
        /\ sent[c] >= 1
        /\ lastRequest = 0
        /\ sinceSent >= minInterval

\* the failure of the latest attempt of c, as the claims word it: a
\* RateLimitError for a rate-limited response, the status and body for any
\* other response, a transport error when no response was read
FinalFailure(c) ==
    IF lastResp[c] = NoResponse THEN {ExecuteErr, ReadErr}
    ELSE IF RateLimitedAsClaimed(lastResp[c])
    THEN {RateLimitError(IF HasRetryAfter(c) THEN RetryAfterOf(c).d
                         ELSE retryBaseWait * Pow2(maxRetries))}
    ELSE {StatusErr(lastResp[c].status, lastResp[c].body)}

\* C11: a call that returns "max retries exceeded" has made all
\* maxRetries + 1 attempts and wraps the failure of the last of them,
\* whatever the earlier attempts met; and a returned error holds a
\* RateLimitError only in that return, with the last attempt answered by a
\* rate-limited response.
C11_ExhaustedWrapsLastFailure ==
    \A c \in Calls :
        /\ (pc[c] = "done" /\ result[c].kind = "maxRetries") =>
              /\ attempt[c] = maxRetries + 1
              /\ result[c].err \in FinalFailure(c)
        /\ (pc[c] = "done" /\ result[c].err.kind = "rateLimit") =>
              /\ result[c].kind = "maxRetries"
              /\ attempt[c] = maxRetries + 1
              /\ RateLimitedAsClaimed(lastResp[c])

\* a call that met a 5xx first and rate limits after it is exhausted
C11_Witness ==
    \E c \in Calls :
        /\ pc[c] = "done"
        /\ result[c].kind = "maxRetries"
        /\ result[c].err.kind = "rateLimit"
        /\ streak[c] = "mixed"
        /\ maxRetries >= 1

\* C12: whenever an operation of the real client returns after its
\* request failed (doRequest returned an error), the operation returns an
\* error, and not a result.
C12_FailureBecomesError ==
    opRet.failed => opRet.err # "nil"

\* CheckStock was given products and stores and has returned
CheckStockOver == hpc = "done" /\ Len(reqSkus) > 0 /\ Len(reqStores) > 0
\* a lookup of the product at position i failed
Failed(i) == lookups[i].state \in {"metaFailed", "availFailed"}
\* the records the client returned for position i, as the handler hands
\* them on; nothing for a product that was skipped
RecordsOf(i) ==
    IF lookups[i].state = "ok"
    THEN [j \in 1..Len(lookups[i].records) |->
            StockStatus(lookups[i].records[j], lookups[i].product)]
    ELSE <<>>
RECURSIVE Merged(_)
\* the same for positions 1 to n, in order
Merged(n) == IF n = 0 THEN <<>> ELSE Merged(n - 1) \o RecordsOf(n)

\* C13: when CheckStock returns, every requested product was looked up,
\* the ones with a failed lookup were skipped, and the response holds, in
\* the order of the request, every record that CheckAvailability returned
\* for each product whose two lookups succeeded.
C13_SkipAndContinue ==
    CheckStockOver =>
        /\ \A i \in 1..Len(reqSkus) : lookups[i].state = "ok" \/ Failed(i)
        /\ response.msg.Results = Merged(Len(reqSkus))

\* the first product failed and the records of the second are returned
C13_Witness ==
    /\ CheckStockOver
    /\ Len(reqSkus) = 2
    /\ Failed(1)
    /\ lookups[2].state = "ok"
    /\ Len(lookups[2].records) = 2
    /\ Len(response.msg.Results) = 2

\* the identifiers of the products that were skipped, in request order
Skipped ==
    LET failed == { i \in 1..Len(reqSkus) : Failed(i) }
        RECURSIVE Upto(_)
        Upto(n) == IF n = 0 THEN <<>>
                   ELSE IF n \in failed THEN Upto(n - 1) \o <<reqSkus[n]>>
                   ELSE Upto(n - 1)
    IN  Upto(Len(reqSkus))
\* the report of skipped identifiers that a reply carries
ReportOf(reply) ==
    IF "Skipped" \in DOMAIN reply.msg THEN reply.msg.Skipped ELSE <<>>

\* C14: when CheckStock has skipped some products and returns a result list
\* that is not empty, what it returns lists the skipped identifiers.
C14_SkippedReported ==
    (CheckStockOver /\ Skipped # <<>> /\ response.msg.Results # <<>>) =>
        ReportOf(response) = Skipped

\* C15: when the lookups of every requested product failed, CheckStock
\* returns an error; and it returns an empty list without an error only
\* when no lookup failed.
C15_TotalFailureIsError ==
    CheckStockOver =>
        /\ (\A i \in 1..Len(reqSkus) : Failed(i)) => response.err # "nil"
        /\ (response.msg.Results = <<>> /\ response.err = "nil") =>
              \A i \in 1..Len(reqSkus) : ~Failed(i)

\* C16: a CheckStock request whose list of stores or of products is empty
\* is answered at once with an empty list and no error, and no operation of
\* the client is called for it, neither before the answer nor after it.
C16_EmptyRequestNoCalls ==
    [][/\ (hpc = "idle" /\ hpc' \in {"meta", "done"}
             /\ (Len(reqSkus') = 0 \/ Len(reqStores') = 0)) =>
              /\ hpc' = "done"
              /\ response' = Reply(<<>>, "nil")
              /\ \A i \in 1..Len(lookups') :
                    lookups'[i].meta = 0 /\ lookups'[i].avail = 0
              /\ pc' = pc
              /\ sent' = sent
              /\ fixture' = fixture
       /\ hpc = "done" => (pc' = pc /\ sent' = sent /\ lookups' \in {lookups, <<>>})
      ]_vars

\* products were asked about, in no store
C16_Witness ==
    /\ hpc = "done"
    /\ Len(reqSkus) = 2
    /\ Len(reqStores) = 0
    /\ response = Reply(<<>>, "nil")

\* C17: for each position of the request's product list the handler calls
\* GetProductBySKU once and CheckAvailability at most once, with all the
\* requested stores in that one call; CheckAvailability is called exactly
\* when the metadata lookup succeeded, and no lookup is made again after it
\* failed.
C17_OneLookupPerProduct ==
    /\ \A i \in 1..Len(lookups) :
         /\ lookups[i].meta <= 1
         /\ lookups[i].avail <= 1
         /\ lookups[i].avail = 1 =>
               /\ lookups[i].meta = 1
               /\ lookups[i].state # "metaFailed"
               /\ lookups[i].stores = reqStores
         /\ lookups[i].state = "metaFailed" => lookups[i].avail = 0
    /\ CheckStockOver =>
         \A i \in 1..Len(reqSkus) :
             /\ lookups[i].meta = 1
             /\ (lookups[i].avail = 1) = (lookups[i].state # "metaFailed")

\* two stores, one product whose metadata lookup failed and one whose
\* availability lookup failed
C17_Witness ==
    /\ CheckStockOver
    /\ Len(reqStores) = 2
    /\ Len(reqSkus) = 2
    /\ lookups[1].state = "metaFailed"
    /\ lookups[2].state = "availFailed"
    /\ lookups[2].avail = 1

\* every availability record a client has returned to the request under way
\* and every StockStatus of the response of CheckStock
Returned ==
    UNION { { lookups[i].records[k] : k \in 1..Len(lookups[i].records) } :
                i \in 1..Len(lookups) }
\* the StockStatus messages of the response of CheckStock
Statuses ==
    IF hpc = "done"
    THEN { response.msg.Results[k] : k \in 1..Len(response.msg.Results) }
    ELSE {}

\* C18: no availability the fixture client has computed, no record either
\* client has returned and no StockStatus of a CheckStock response is
\* low-stock without being in stock.
C18_LowStockImpliesInStock ==
    /\ \A x \in computed : x.value.LowStock => x.value.InStock
    /\ \A a \in Returned : a.LowStock => a.InStock
    /\ \A st \in Statuses : st.LowStock => st.InStock

\* low stock computed, returned and reported; out of stock computed as well
C18_Witness ==
    /\ \E x \in computed : x.value.LowStock /\ x.value.InStock
    /\ \E x \in computed : ~x.value.InStock /\ ~x.value.LowStock
    /\ \E a \in Returned : a.LowStock
    /\ \E st \in Statuses : st.LowStock

\* C19: every record CheckAvailability has returned, of the real client and
\* of the fixture client, and every StockStatus of a CheckStock response has
\* inStock true: a pair classified as not in stock is left out.
C19_OnlyInStockReturned ==
    /\ \A a \in Returned : a.InStock
    /\ \A st \in Statuses : st.InStock
    /\ \A i \in 1..Len(lookups) :
          (bbClient = "mock" /\ lookups[i].state = "ok") =>
              \A x \in computed :
                  (x.Sku = reqSkus[i] /\ ~x.value.InStock) =>
                      \A k \in 1..Len(lookups[i].records) :
                          lookups[i].records[k].StoreID # x.value.StoreID

\* the fixture found one of two stores out of stock and returned the other
C19_Witness ==
    /\ bbClient = "mock"
    /\ hpc = "done"
    /\ Len(reqStores) = 2
    /\ Len(reqSkus) = 1
    /\ \E x \in computed : x.Sku = reqSkus[1] /\ ~x.value.InStock
    /\ Len(response.msg.Results) = 1

\* C19 on the real client: the stores the catalog lists come back in stock
C19_WitnessAPI ==
    /\ bbClient = "api"
    /\ hpc = "done"
    /\ Len(response.msg.Results) = 2

\* C20: the fixture client classifies a (store, product) pair the same way
\* every time: all classifications computed for a pair are equal, and two
\* CheckAvailability calls for one product return the same records whatever
\* was drawn from the global random source in between.
C20_ClassificationByPairOnly ==
    /\ \A x, y \in computed :
          (x.Sku = y.Sku /\ x.value.StoreID = y.value.StoreID) => x = y
    /\ \A i, j \in 1..Len(lookups) :
          (/\ bbClient = "mock"
           /\ reqSkus[i] = reqSkus[j]
           /\ lookups[i].state = "ok"
           /\ lookups[j].state = "ok") =>
              lookups[i].records = lookups[j].records

\* the same product looked up twice, SearchStores having drawn from the
\* global source in between
C20_Witness ==
    /\ bbClient = "mock"
    /\ Len(reqSkus) = 2
    /\ reqSkus[1] = reqSkus[2]
    /\ lookups[1].state = "ok"
    /\ lookups[2].state = "ok"
    /\ drawn
    /\ lookups[1].records # <<>>

\* the step is a transport failure of call c: Do or io.ReadAll returned an
\* error, and the loop went round
TransportFailure(c) ==
    /\ pc[c] \in {"create", "inflight"}
    /\ pc'[c] \notin {"create", "inflight"}
    /\ lastResp'[c] = NoResponse
    /\ result'[c].kind # "create"

\* C23: a transport failure on an attempt that is not the last starts a
\* further attempt, with no return and no backoff wait, and that attempt
\* passes the throttle before its request goes out; a transport failure on
\* attempt maxRetries ends the call with the exhaustion error around that
\* failure; and the exhaustion error is only returned after maxRetries + 1
\* attempts.
C23_TransportFailureRetried ==
    [][\A c \in Calls :
         /\ TransportFailure(c) =>
               /\ lastErr'[c] \in {ExecuteErr, ReadErr}
               /\ attempt'[c] = attempt[c] + 1
               /\ attempt[c] < maxRetries =>
                     /\ pc'[c] = "lock"
                     /\ result'[c] = NoResult
                     /\ timer'[c] = 0
               /\ attempt[c] = maxRetries =>
                     /\ pc'[c] = "done"
                     /\ result'[c] = ReturnExhausted(lastErr'[c])
         /\ (pc[c] = "check" /\ pc'[c] = "create") => lastRequest >= minInterval
         /\ (pc[c] = "sleep" /\ pc'[c] = "stamp") => timer[c] = 0
         /\ (Sends(c) /\ attempt[c] >= 1) => sinceSent >= minInterval
         /\ result'[c].kind = "maxRetries" => attempt'[c] = maxRetries + 1
      ]_vars

\* every request of the call went out and its answer could not be read
C23_Witness ==
    \E c \in Calls :
        /\ pc[c] = "done"
        /\ streak[c] = "transport"
        /\ maxRetries >= 1
        /\ sent[c] = maxRetries + 1
        /\ result[c] = ReturnExhausted(ReadErr)

\* C27: the mutex is held only between a Lock and the Unlock that follows
\* it with nothing blocking in between: never by a call that sleeps, waits,
\* has its request under way or has returned; and whoever holds it can
\* release it at once, so a call waiting for the mutex is not kept out for
\* ever.
C27_MutexNeverHeldAcrossWaits ==
    /\ \A c \in Calls :
          /\ mu = c => pc[c] \in {"check", "stamp"}
          /\ pc[c] \in {"idle", "lock", "sleep", "create", "inflight",
                        "rlWait", "srvWait", "done"} => mu # c
    /\ mu # NoCall => ENABLED (Throttle(mu) \/ Stamp(mu))
    /\ mu \in Calls \cup {NoCall}

\* a call gave up in its throttle wait and another call has the mutex
C27_Witness ==
    \E c, d \in Calls :
        /\ c # d
        /\ pc[c] = "done"
        /\ result[c].kind = "Canceled"
        /\ sent[c] = 0
        /\ mu = d
        /\ pc[d] = "check"

\* the wait of c is the one after a retryable answer to its last attempt
LastWait(c) == pc[c] \in {"rlWait", "srvWait"} /\ attempt[c] = maxRetries

\* C28: a retryable answer is followed by a backoff wait on every attempt,
\* the last one included; the exhaustion error is returned out of that last
\* wait once its timer has run out; a call whose attempts were all answered
\* that way has then waited maxRetries + 1 times; and the context ending
\* the last wait gives the context's error.
C28_BackoffAfterFinalAttempt ==
    [][\A c \in Calls :
         /\ (pc[c] = "inflight" /\ lastResp'[c] # NoResponse
               /\ OutcomeKind(lastResp'[c]) \in {"rateLimited", "5xx"}) =>
               /\ pc'[c] \in {"rlWait", "srvWait"}
               /\ result'[c] = NoResult
               /\ attempt'[c] = attempt[c]
         /\ (pc[c] \in {"rlWait", "srvWait"} /\ result'[c].kind = "maxRetries") =>
               /\ LastWait(c)
               /\ timer[c] = 0
               /\ streak[c] \in {"rateLimited", "5xx"} =>
                     /\ attempt'[c] = maxRetries + 1
                     /\ sent[c] = maxRetries + 1
         /\ (LastWait(c) /\ ctxErr[c] # "nil" /\ timer[c] > 0 /\ pc'[c] # pc[c]) =>
               /\ result'[c] = Res(ctxErr[c], NilErr, <<>>)
               /\ result'[c].kind # "maxRetries"
      ]_vars

\* the context ended the wait that follows the last attempt
C28_Witness ==
    \E c \in Calls :
        /\ pc[c] = "done"
        /\ maxRetries >= 1
        /\ attempt[c] = maxRetries
        /\ sent[c] = maxRetries + 1
        /\ streak[c] = "rateLimited"
        /\ result[c].kind = "Canceled"

\* C24: when CheckAvailability of the real client returns an empty list and
\* no error although its request failed, the request was answered with
\* status 403 and doRequest returned the error of that answer; every other
\* failure comes back as an error.
C24_SwallowsOnlyStatus403 ==
    (opRet.name = "CheckAvailability" /\ opRet.failed /\ opRet.err = "nil") =>
        /\ opRet.kind = "error"
        /\ opRet.status = 403

\* C21: the fixture reports a product that stores do not carry as available
\* exactly when the roll is below 0.10 and never as low stock; it reports a
\* carried product as available exactly when the roll is below 0.70, and as
\* low stock on a 20-point sub-range of that, which is [0.50, 0.70)
C21_FixtureThresholds ==
    rollValue # NotRolled =>
        /\ ~rollProduct.InStoreAvailability =>
                /\ classified.inStock <=> rollValue < 10
                /\ ~classified.lowStock
        /\ rollProduct.InStoreAvailability =>
                /\ classified.inStock <=> rollValue < 70
                /\ classified.lowStock <=> (rollValue >= 50 /\ rollValue < 50 + 20)
                /\ classified.lowStock => classified.inStock

\* a carried product on the first rollValue of the low-stock range
C21_Witness ==
    /\ rollValue = 50
    /\ rollProduct.InStoreAvailability
    /\ classified.inStock
    /\ classified.lowStock

\* the records of the sorted list at places i < j
SortedPairs == 
    { ij \in (DOMAIN sortedResults) \X (DOMAIN sortedResults) : ij[1] < ij[2] }
\* the place of a record in results
PlaceOf(r) == CHOOSE k \in DOMAIN pageResults : pageResults[k] = r

\* C22: sorted by status, descending, the list shows the normal-stock records
\* first, then the low-stock ones, then those not available, and records of
\* one status in the order they had
C22_StatusDescendingBestFirst ==
    (sortField = "status" /\ sortDirection = "desc") =>
        \A ij \in SortedPairs :
            LET a == sortedResults[ij[1]]
                b == sortedResults[ij[2]]
            IN  /\ StatusOf(a) >= StatusOf(b)
                /\ StatusOf(a) = StatusOf(b) => PlaceOf(a) < PlaceOf(b)

\* C26: as the page starts (field 'myStore', descending), every result of a
\* saved store comes before every result of another store, and the results of
\* one group come by ascending distance
C26_InitialSortSavedStoresFirst ==
    (sortField = "myStore" /\ sortDirection = "desc") =>
        \A ij \in SortedPairs :
            LET a == sortedResults[ij[1]]
                b == sortedResults[ij[2]]
            IN  /\ b.isMyStore => a.isMyStore
                /\ a.isMyStore = b.isMyStore =>
                        a.store.distanceMiles <= b.store.distanceMiles

\* C25: when the call of the server of an add or a remove fails and nothing
\* else has touched the list since the operation was invoked, the revert leaves
\* the list with the identifiers it had when the operation was invoked
C25_RevertRestoresIdSet ==
    [][\A k \in DOMAIN serverCalls :
          (ServerFails(k) /\ serverCalls[k].alone) =>
              IdSet(myStores') = serverCalls[k].before]_vars

\* C29: no two entries of the list have the same identifier
C29_NoDuplicateIds ==
    \A i, j \in DOMAIN myStores : myStores[i] = myStores[j] => i = j

\* the cookie names a session that a callback created, that no logout has
\* deleted and that has not expired
LiveSession(cookie) ==
    /\ \E i \in issued : i.token = cookie /\ dbNow < i.expiresAt
    /\ cookie \notin loggedOut

\* C30: with sign-in configured a request reaches the handler of the service
\* only if its session_token names a session created by a callback, not
\* deleted by a logout and not expired; every other request is answered 401
C30_OnlyLiveSessionsForwarded ==
    [][\A cookie \in Cookies, dbOk \in BOOLEAN :
          Middleware(cookie, dbOk) =>
              /\ served'.outcome = "handler" => LiveSession(cookie)
              /\ served'.outcome # "handler" => served'.outcome = "401"]_vars

\* a request with a live session was forwarded after another session was
\* logged out
C30_Witness ==
    /\ authHandler = "auth"
    /\ served.outcome = "handler"
    /\ LiveSession(served.cookie)
    /\ loggedOut # {}

====
